---- MODULE Spec2Model ----
(***************************************************************************)
(* Login rate limiter of mig/shared/griddaemons/ratelimits.py.             *)
(*                                                                         *)
(* One counter file per protocol holds nested dictionaries                 *)
(*   address -> {fails, hits, proto -> {fails, hits, identity ->           *)
(*                 {fails, hits, secret -> {timestamp, hits}}}}            *)
(* The counters 'fails' and 'hits' live in the SAME dictionary as the      *)
(* children of a level, so an identity or secret that is spelled 'hits' or *)
(* 'fails' meets the counter instead of a child node.  The model keeps the *)
(* children in a separate map and reproduces the collisions explicitly.    *)
(*                                                                         *)
(* Time is counted in ticks of 1/TicksPerSec seconds: time.time() and the  *)
(* marker's mtime are floats, and round() at line 327 sees the fraction.   *)
(***************************************************************************)
EXTENDS Integers, Sequences, FiniteSets, TLC

VARIABLES
    table,        \* content of <proto>.rate_limits.pck (a missing file loads as {})
    now,          \* the clock, in ticks
    last_expire,  \* mtime of <proto>.last_expired, 0 while the file is missing
    last,         \* the call that finished last: arguments, locals and result
    run,          \* history: the current streak of failed updates of one identity
    pc,           \* per process: position inside its current call
    lock,         \* per process: how it holds <proto>.rate_limits.pck.lock
    loc,          \* per process: arguments and locals of its current call
    serial,       \* history: the finished calls applied one after the other
    faults        \* whether unpickle/pickle may fail in this run

vars == <<table, now, last_expire, last, run, pc, lock, loc, serial, faults>>

---------------------------------------------------------------------------
(* Bounds of the model *)

TicksPerSec == 3
Horizon == 2
MaxFails == 2
MaxCalls == 2
PenalizeRange == 5
MaxPolicyLen == 5
MaxPwLen == 4

(* Program constants *)

StallFactor == 3

PROTO == "sftp"
ReservedKeys == {"hits", "fails"}
NoSecret == ""

(* Inputs *)

Addresses == {"a1"}
WideAddresses == {"a1", "a2"}
Users == {"u1", "u2", "hits"}
Secrets == {"s1", "s2", "fails"}
SecretArgs == Secrets \cup {NoSecret}
MaxUserHits == 0..2
FailCaches == {1, 2}
ExpireDelays == {0, TicksPerSec}
Procs == {"p1", "p2"}

\* time.time() is far larger than any expire delay: the first expire run of
\* a protocol is never postponed.
StartTime == TicksPerSec + 1
MaxTime == StartTime + Horizon

---------------------------------------------------------------------------
(* Dictionaries *)

EmptyDict == [k \in {} |-> 0]

Put(d, k, v) == [x \in DOMAIN d \cup {k} |-> IF x = k THEN v ELSE d[x]]

Del(d, k) == [x \in DOMAIN d \ {k} |-> d[x]]

RECURSIVE SumOver(_, _)
SumOver(f, S) ==
    IF S = {} THEN 0
    ELSE LET x == CHOOSE y \in S : TRUE
         IN  f[x] + SumOver(f, S \ {x})

\* the float key a failed attempt without secret is stored under
TimeKey(timestamp) == "@" \o ToString(timestamp)

AddressEntry(fails, hits, proto_fails, proto_hits, users) ==
    [fails |-> fails, hits |-> hits,
     proto |-> [fails |-> proto_fails, hits |-> proto_hits, users |-> users]]

UsersOf(rate_limits, client_address) ==
    IF client_address \in DOMAIN rate_limits
    THEN rate_limits[client_address].proto.users
    ELSE EmptyDict

\* what _proto_limits.get(client_id, {}) yields: a fresh address has an empty
\* protocol dictionary; a stored one always holds both counters, so a reserved
\* client_id fetches an int.
UserKind(rate_limits, client_address, client_id) ==
    IF client_address \notin DOMAIN rate_limits THEN "empty"
    ELSE IF client_id \in ReservedKeys THEN "int"
    ELSE IF client_id \in DOMAIN UsersOf(rate_limits, client_address) THEN "dict"
    ELSE "empty"

HasIdentity(rate_limits, client_address, client_id) ==
    /\ client_address \in DOMAIN rate_limits
    /\ client_id \in DOMAIN rate_limits[client_address].proto.users

---------------------------------------------------------------------------
\* lines 238-241: a successful login takes the identity's totals off an ancestor
\* a success that would leave the aggregate as it was
without_user_kept(total, user_total) == total

without_user(total, user_total) == total - user_total

(* update_rate_limit, lines 220-266: the body of the try block, as a      *)
(* function of the loaded table.  raised: an exception left the block      *)
(* before the save, so nothing is written.                                 *)

update_rate_limit_try(rate_limits, client_address, client_id, login_success, secret_arg, timestamp) ==
    LET secret == IF secret_arg = NoSecret THEN TimeKey(timestamp) ELSE secret_arg
        has_address == client_address \in DOMAIN rate_limits
        address_limits == rate_limits[client_address]
        users == UsersOf(rate_limits, client_address)
        user_kind == UserKind(rate_limits, client_address, client_id)
        old_address_fails == IF has_address THEN address_limits.fails ELSE 0
        old_address_hits == IF has_address THEN address_limits.hits ELSE 0
        old_proto_fails == IF has_address THEN address_limits.proto.fails ELSE 0
        old_proto_hits == IF has_address THEN address_limits.proto.hits ELSE 0
        old_user_fails == IF user_kind = "dict" THEN users[client_id].fails ELSE 0
        old_user_hits == IF user_kind = "dict" THEN users[client_id].hits ELSE 0
        user_secrets == IF user_kind = "dict" THEN users[client_id].secrets
                        ELSE EmptyDict
        \* _user_limits.get(secret, {}): a new identity has an empty dictionary,
        \* a stored one holds both counters
        secret_kind == IF user_kind = "empty" THEN "empty"
                       ELSE IF secret \in ReservedKeys THEN "int"
                       ELSE IF secret \in DOMAIN user_secrets THEN "dict"
                       ELSE "empty"
        old_secret_hits == IF secret_kind = "dict" THEN user_secrets[secret].hits
                           ELSE 0
        first_hit == IF old_secret_hits = 0 THEN 1 ELSE 0
        \* lines 258-262: the counters are written after the secret node, so a
        \* secret stored under a reserved key is overwritten by the counter
        new_secrets == IF secret \in ReservedKeys THEN user_secrets
                       ELSE Put(user_secrets, secret,
                                [timestamp |-> timestamp,
                                 hits |-> old_secret_hits + 1])
        new_user == [fails |-> old_user_fails + 1,
                     hits |-> old_user_hits + first_hit,
                     secrets |-> new_secrets]
        \* lines 263-266: the protocol counters are written last, so an identity
        \* stored under a reserved key is overwritten by the counter
        failed_users == IF client_id \in ReservedKeys THEN users
                        ELSE Put(users, client_id, new_user)
        unchanged == [raised |-> FALSE,
                      rate_limits |-> rate_limits,
                      address_hits |-> old_address_hits,
                      proto_hits |-> old_proto_hits,
                      user_hits |-> old_user_hits,
                      secret_hits |-> 0,
                      old_user_hits |-> old_user_hits,
                      old_user_fails |-> old_user_fails]
    IN  IF user_kind = "int"
        THEN \* line 234: 'int' object has no attribute 'get'
             [unchanged EXCEPT !.raised = TRUE]
        ELSE IF login_success
        THEN IF user_kind = "dict"
             THEN [unchanged EXCEPT
                     !.rate_limits = Put(rate_limits, client_address,
                         AddressEntry(without_user(old_address_fails, old_user_fails),
                                      without_user(old_address_hits, old_user_hits),
                                      without_user(old_proto_fails, old_user_fails),
                                      without_user(old_proto_hits, old_user_hits),
                                      Del(users, client_id))),
                     !.address_hits = without_user(old_address_hits, old_user_hits),
                     !.proto_hits = without_user(old_proto_hits, old_user_hits),
                     !.user_hits = 0]
             ELSE [unchanged EXCEPT
                     !.rate_limits = Put(rate_limits, client_address,
                         AddressEntry(old_address_fails, old_address_hits,
                                      old_proto_fails, old_proto_hits, users))]
        ELSE IF secret_kind = "int"
        THEN \* line 250: 'int' object has no attribute 'get'
             [unchanged EXCEPT !.raised = TRUE]
        ELSE [unchanged EXCEPT
                !.rate_limits = Put(rate_limits, client_address,
                    AddressEntry(old_address_fails + 1,
                                 old_address_hits + first_hit,
                                 old_proto_fails + 1,
                                 old_proto_hits + first_hit,
                                 failed_users)),
                !.address_hits = old_address_hits + first_hit,
                !.proto_hits = old_proto_hits + first_hit,
                !.user_hits = old_user_hits + first_hit,
                !.secret_hits = old_secret_hits + 1]

(* hit_rate_limit, lines 151-157, as a function of the loaded table *)

hit_rate_limit_check(rate_limits, client_address, client_id, max_user_hits) ==
    LET user_kind == UserKind(rate_limits, client_address, client_id)
        user_hits == IF user_kind = "dict"
                     THEN UsersOf(rate_limits, client_address)[client_id].hits
                     ELSE 0
    IN  IF user_kind = "int"
        THEN \* line 155: 'int' object has no attribute 'get', not caught
             [raised |-> TRUE, refuse |-> FALSE, user_hits |-> 0]
        ELSE [raised |-> FALSE, refuse |-> (user_hits >= max_user_hits),
              user_hits |-> user_hits]

---------------------------------------------------------------------------
(* expire_rate_limit *)

\* line 358
\* a window that would close one tick early
too_old_or_equal(secret_limits, at, fail_cache) ==
    secret_limits.timestamp + fail_cache <= at

too_old(secret_limits, at, fail_cache) ==
    secret_limits.timestamp + fail_cache < at

\* the secret nodes of one identity that the loop of lines 354-371 deletes
Expired(user_limits, at, fail_cache) ==
    {secret \in DOMAIN user_limits.secrets :
        too_old(user_limits.secrets[secret], at, fail_cache)}

ExpiredFails(user_limits, at, fail_cache) ==
    SumOver([secret \in DOMAIN user_limits.secrets |->
                user_limits.secrets[secret].hits],
            Expired(user_limits, at, fail_cache))

\* lines 350-373: one identity after the loop over its secrets
expire_user(user_limits, at, fail_cache) ==
    LET gone == Expired(user_limits, at, fail_cache)
    IN  [fails |-> user_limits.fails - ExpiredFails(user_limits, at, fail_cache),
         hits |-> user_limits.hits - Cardinality(gone),
         secrets |-> [secret \in DOMAIN user_limits.secrets \ gone |->
                         user_limits.secrets[secret]]]

\* line 378: an identity whose fails reached zero is deleted
pruned_user(user_limits) == user_limits.fails = 0

\* lines 364-371 summed over the identities of one address: what the loop
\* takes off the address and protocol counters, and how often it runs line 371
expired_fails(address_limits, at, fail_cache) ==
    SumOver([user \in DOMAIN address_limits.proto.users |->
                ExpiredFails(address_limits.proto.users[user], at, fail_cache)],
            DOMAIN address_limits.proto.users)

expired_hits(address_limits, at, fail_cache) ==
    SumOver([user \in DOMAIN address_limits.proto.users |->
                Cardinality(Expired(address_limits.proto.users[user], at,
                                    fail_cache))],
            DOMAIN address_limits.proto.users)

\* lines 338-388: one address after the loop over its identities
expire_address(address_limits, at, fail_cache) ==
    LET users == address_limits.proto.users
        after == [user \in DOMAIN users |-> expire_user(users[user], at, fail_cache)]
        fails_gone == expired_fails(address_limits, at, fail_cache)
        hits_gone == expired_hits(address_limits, at, fail_cache)
        kept == {user \in DOMAIN users : ~pruned_user(after[user])}
    IN  AddressEntry(address_limits.fails - fails_gone,
                     address_limits.hits - hits_gone,
                     address_limits.proto.fails - fails_gone,
                     address_limits.proto.hits - hits_gone,
                     [user \in kept |-> after[user]])

\* lines 336-393: the body of the try block, as a function of the loaded table
expire_rate_limit_try(rate_limits, at, fail_cache) ==
    [rate_limits |-> [address \in DOMAIN rate_limits |->
                         expire_address(rate_limits[address], at, fail_cache)],
     expired |-> SumOver([address \in DOMAIN rate_limits |->
                            expired_hits(rate_limits[address], at, fail_cache)],
                         DOMAIN rate_limits)]

\* round(n / d) for d > 0.  Python 3 rounds a tie to the even neighbour,
\* Python 2 away from zero; the module runs under both.
RoundValues(n, d) ==
    LET floor == n \div d
        rem == n % d
    IN  IF 2 * rem < d THEN {floor}
        ELSE IF 2 * rem > d THEN {floor + 1}
        ELSE {IF floor % 2 = 0 THEN floor ELSE floor + 1,
              IF n >= 0 THEN floor + 1 ELSE floor}

\* lines 324-326
check_expire(expire_delay, last_expired) == expire_delay + last_expired

postponed_expire(expire_delay, last_expired, at) ==
    check_expire(expire_delay, last_expired) > at

---------------------------------------------------------------------------
(* The calls, one caller at a time, on a store that works: unpickle yields *)
(* what was pickled last and pickle succeeds.  The actions leave the       *)
(* history variables last and run to the specification that observes them. *)

NoCall ==
    [op |-> "none", client_address |-> "", client_id |-> "",
     max_user_hits |-> 0, login_success |-> FALSE, raised |-> FALSE,
     user_hits |-> 0, old_user_hits |-> 0, old_user_fails |-> 0,
     refuse |-> FALSE, expired |-> 0, postponed |-> FALSE,
     sleep_secs |-> 0, slept |-> 0]

NoRun == [client_address |-> "", client_id |-> "", calls |-> 0, secrets |-> {}]

TotalFails(rate_limits) ==
    SumOver([address \in DOMAIN rate_limits |-> rate_limits[address].fails],
            DOMAIN rate_limits)

Tick ==
    /\ now < MaxTime
    /\ now' = now + 1
    /\ UNCHANGED <<table, last_expire, last, run, pc, lock, loc, serial, faults>>

update_rate_limit(client_address, client_id, login_success, secret_arg) ==
    LET done == update_rate_limit_try(table, client_address, client_id,
                                      login_success, secret_arg, now)
    IN  /\ login_success \/ TotalFails(table) < MaxFails
        /\ table' = IF done.raised THEN table ELSE done.rate_limits
        /\ UNCHANGED <<now, last_expire, pc, lock, loc, serial, faults>>

hit_rate_limit(client_address, client_id, max_user_hits) ==
    UNCHANGED <<table, now, last_expire, pc, lock, loc, serial, faults>>

expire_rate_limit(fail_cache, expire_delay) ==
    IF postponed_expire(expire_delay, last_expire, now)
    THEN \* lines 326-330
         UNCHANGED <<table, now, last_expire, pc, lock, loc, serial, faults>>
    ELSE /\ table' = expire_rate_limit_try(table, now, fail_cache).rate_limits
         /\ last_expire' = now
         /\ UNCHANGED <<now, pc, lock, loc, serial, faults>>

(* What each call returns and the locals it ends with *)

update_result(client_address, client_id, login_success, secret_arg) ==
    LET done == update_rate_limit_try(table, client_address, client_id,
                                      login_success, secret_arg, now)
    IN  [NoCall EXCEPT
           !.op = "update",
           !.login_success = login_success,
           !.raised = done.raised,
           !.user_hits = done.user_hits,
           !.old_user_hits = done.old_user_hits,
           !.old_user_fails = done.old_user_fails]

hit_result(client_address, client_id, max_user_hits) ==
    LET done == hit_rate_limit_check(table, client_address, client_id,
                                     max_user_hits)
    IN  [NoCall EXCEPT
           !.op = "hit",
           !.client_address = client_address,
           !.client_id = client_id,
           !.max_user_hits = max_user_hits,
           !.raised = done.raised,
           !.refuse = done.refuse,
           !.user_hits = done.user_hits]

expire_results(fail_cache, expire_delay) ==
    IF postponed_expire(expire_delay, last_expire, now)
    THEN {[NoCall EXCEPT !.op = "expire", !.postponed = TRUE,
                         !.expired = expired] :
            expired \in RoundValues(now - check_expire(expire_delay,
                                                       last_expire),
                                    TicksPerSec)}
    ELSE {[NoCall EXCEPT
             !.op = "expire",
             !.expired = expire_rate_limit_try(table, now, fail_cache).expired]}

\* the streak of consecutive failed updates of one identity that began when
\* the table held no entry for it: how many calls, and the secrets they passed
NextRun(client_address, client_id, login_success, secret_arg) ==
    IF login_success THEN NoRun
    ELSE IF run.calls > 0 /\ run.client_address = client_address
            /\ run.client_id = client_id
    THEN [run EXCEPT !.calls = @ + 1, !.secrets = @ \cup {secret_arg}]
    ELSE IF ~HasIdentity(table, client_address, client_id)
    THEN [client_address |-> client_address, client_id |-> client_id,
          calls |-> 1, secrets |-> {secret_arg}]
    ELSE NoRun

\* line 438
\* a stall that would be clamped at zero
penalize_sleep_secs_clamped(user_hits, max_user_hits) ==
    IF user_hits > max_user_hits
    THEN StallFactor * (user_hits - max_user_hits) ELSE 0

penalize_sleep_secs(user_hits, max_user_hits) ==
    StallFactor * (user_hits - max_user_hits)

\* lines 438-443: time.sleep runs only for a positive sleep_secs; slept is the
\* time the caller was blocked
penalize_rate_limit(user_hits, max_user_hits) ==
    LET sleep_secs == penalize_sleep_secs(user_hits, max_user_hits)
    IN  /\ last' = [NoCall EXCEPT
                      !.op = "penalize",
                      !.user_hits = user_hits,
                      !.max_user_hits = max_user_hits,
                      !.sleep_secs = sleep_secs,
                      !.slept = IF sleep_secs > 0 THEN sleep_secs ELSE 0]
        /\ UNCHANGED <<table, now, last_expire, run, pc, lock, loc, serial,
                       faults>>

\* a successful login does not read the secret (lines 236-243)
SecretArgsOf(login_success) == IF login_success THEN {NoSecret} ELSE SecretArgs

---------------------------------------------------------------------------
(* The calls of several processes, step by step.  pc names the statement a *)
(* process executes next; loc holds its arguments and locals.              *)

NoFrame ==
    [op |-> "none", client_address |-> "", client_id |-> "",
     login_success |-> FALSE, secret |-> "", max_user_hits |-> 0,
     fail_cache |-> 0, expire_delay |-> 0, timestamp |-> 0,
     rate_limits |-> EmptyDict, saved |-> FALSE, loaded |-> "",
     refuse |-> FALSE, raised |-> FALSE, overlap |-> FALSE, calls |-> 0]

\* what a finished call leaves behind: its locals are gone
Returned(frame) ==
    [NoFrame EXCEPT !.op = frame.op, !.calls = frame.calls + 1,
                    !.overlap = frame.overlap, !.loaded = frame.loaded,
                    !.saved = frame.saved, !.raised = frame.raised,
                    !.refuse = frame.refuse]

\* acquire_file_lock: an exclusive lock needs the file unlocked, a shared lock
\* needs it free of an exclusive holder
may_lock_exclusive(p) == \A q \in Procs : lock[q] = "none"

may_lock_shared(p) == \A q \in Procs : lock[q] # "exclusive"

\* unpickle yields the pickled dictionary, yields something that is no
\* dictionary, or raises
LoadOutcomes == IF faults THEN {"dict", "other", "raise"} ELSE {"dict"}

\* pickle yields True, or False on failure
SaveOutcomes == IF faults THEN BOOLEAN ELSE {TRUE}

\* lines 75-84: a result that is no dictionary loads as the empty table
load_rate_limits(loaded) == IF loaded = "dict" THEN table ELSE EmptyDict

\* line 219, 334 or 75 with the lock held: a result goes to the next
\* statement; an exception leaves the call at once, past the release
load_step(p, next) ==
    \E loaded \in LoadOutcomes :
        /\ loc' = [loc EXCEPT ![p] =
                     IF loaded = "raise"
                     THEN Returned([loc[p] EXCEPT !.loaded = loaded,
                                                  !.raised = TRUE])
                     ELSE [loc[p] EXCEPT
                             !.rate_limits = load_rate_limits(loaded),
                             !.loaded = loaded]]
        /\ pc' = [pc EXCEPT ![p] = IF loaded = "raise" THEN "idle" ELSE next]

Frame(p, op) ==
    [NoFrame EXCEPT !.op = op, !.calls = loc[p].calls,
                    !.overlap = \E q \in Procs \ {p} : pc[q] # "idle"]

\* the calls begun so far, by all processes
Started ==
    SumOver([p \in Procs |-> loc[p].calls + (IF pc[p] = "idle" THEN 0 ELSE 1)],
            Procs)

\* lines 204-216: the clock is read before the lock is requested
update_enter(p, client_address, client_id, login_success, secret_arg) ==
    /\ pc[p] = "idle"
    /\ login_success \/ TotalFails(table) < MaxFails
    /\ loc' = [loc EXCEPT ![p] =
                 [Frame(p, "update") EXCEPT
                    !.client_address = client_address,
                    !.client_id = client_id,
                    !.login_success = login_success,
                    !.secret = secret_arg,
                    !.timestamp = now]]
    /\ pc' = [pc EXCEPT ![p] = "update_lock"]
    /\ UNCHANGED <<table, now, last_expire, last, run, lock, serial, faults>>

update_begin(p, client_address, client_id, login_success, secret_arg) ==
    /\ Started < MaxCalls
    /\ update_enter(p, client_address, client_id, login_success, secret_arg)

\* an update that would go on without the lock
update_lock_skipped(p) ==
    /\ pc[p] = "update_lock"
    /\ pc' = [pc EXCEPT ![p] = "update_load"]
    /\ UNCHANGED <<table, now, last_expire, last, run, lock, loc, serial,
                   faults>>

\* lines 217-218
update_lock(p) ==
    /\ pc[p] = "update_lock"
    /\ may_lock_exclusive(p)
    /\ lock' = [lock EXCEPT ![p] = "exclusive"]
    /\ pc' = [pc EXCEPT ![p] = "update_load"]
    /\ UNCHANGED <<table, now, last_expire, last, run, loc, serial, faults>>

\* line 219
update_load(p) ==
    /\ pc[p] = "update_load"
    /\ load_step(p, "update_try")
    /\ UNCHANGED <<table, now, last_expire, last, run, lock, serial, faults>>

\* what the call does to a table when nothing else runs
update_alone(rate_limits, frame) ==
    LET done == update_rate_limit_try(rate_limits, frame.client_address,
                                      frame.client_id, frame.login_success,
                                      frame.secret, frame.timestamp)
    IN  IF done.raised THEN rate_limits ELSE done.rate_limits

\* lines 220-273: the try block with its save; a failed save raises IOError,
\* which the except clause logs
update_try(p) ==
    LET done == update_rate_limit_try(loc[p].rate_limits, loc[p].client_address,
                                      loc[p].client_id, loc[p].login_success,
                                      loc[p].secret, loc[p].timestamp)
    IN  /\ pc[p] = "update_try"
        /\ \E saved \in (IF done.raised THEN {FALSE} ELSE SaveOutcomes) :
             /\ table' = IF saved THEN done.rate_limits ELSE table
             /\ loc' = [loc EXCEPT ![p].saved = saved,
                                   ![p].raised = done.raised,
                                   ![p].rate_limits = EmptyDict]
        /\ serial' = update_alone(serial, loc[p])
        /\ pc' = [pc EXCEPT ![p] = "update_release"]
        /\ UNCHANGED <<now, last_expire, last, run, lock, faults>>

\* line 275, and the return
update_release(p) ==
    /\ pc[p] = "update_release"
    /\ lock' = [lock EXCEPT ![p] = "none"]
    /\ loc' = [loc EXCEPT ![p] = Returned(loc[p])]
    /\ pc' = [pc EXCEPT ![p] = "idle"]
    /\ UNCHANGED <<table, now, last_expire, last, run, serial, faults>>

\* lines 313-330: a postponed call returns at once
expire_begin(p, fail_cache, expire_delay) ==
    /\ pc[p] = "idle"
    /\ Started < MaxCalls
    /\ loc' = [loc EXCEPT ![p] =
                 IF postponed_expire(expire_delay, last_expire, now)
                 THEN Returned(Frame(p, "expire"))
                 ELSE [Frame(p, "expire") EXCEPT !.fail_cache = fail_cache,
                                                 !.expire_delay = expire_delay,
                                                 !.timestamp = now]]
    /\ pc' = [pc EXCEPT ![p] =
                 IF postponed_expire(expire_delay, last_expire, now)
                 THEN "idle" ELSE "expire_lock"]
    /\ UNCHANGED <<table, now, last_expire, last, run, lock, serial, faults>>

\* lines 332-333
expire_lock(p) ==
    /\ pc[p] = "expire_lock"
    /\ may_lock_exclusive(p)
    /\ lock' = [lock EXCEPT ![p] = "exclusive"]
    /\ pc' = [pc EXCEPT ![p] = "expire_load"]
    /\ UNCHANGED <<table, now, last_expire, last, run, loc, serial, faults>>

\* line 334
expire_load(p) ==
    /\ pc[p] = "expire_load"
    /\ load_step(p, "expire_try")
    /\ UNCHANGED <<table, now, last_expire, last, run, lock, serial, faults>>

\* lines 335-399: the try block with its save
expire_try(p) ==
    /\ pc[p] = "expire_try"
    /\ \E saved \in SaveOutcomes :
         /\ table' = IF saved
                     THEN expire_rate_limit_try(loc[p].rate_limits,
                                                loc[p].timestamp,
                                                loc[p].fail_cache).rate_limits
                     ELSE table
         /\ loc' = [loc EXCEPT ![p].saved = saved,
                               ![p].rate_limits = EmptyDict]
    /\ serial' = expire_rate_limit_try(serial, loc[p].timestamp,
                                       loc[p].fail_cache).rate_limits
    /\ pc' = [pc EXCEPT ![p] = "expire_release"]
    /\ UNCHANGED <<now, last_expire, last, run, lock, faults>>

\* line 401
expire_release(p) ==
    /\ pc[p] = "expire_release"
    /\ lock' = [lock EXCEPT ![p] = "none"]
    /\ pc' = [pc EXCEPT ![p] = "expire_touch"]
    /\ UNCHANGED <<table, now, last_expire, last, run, loc, serial, faults>>

\* line 408, and the return: touch sets the marker's mtime to the current time
expire_touch(p) ==
    /\ pc[p] = "expire_touch"
    /\ last_expire' = now
    /\ loc' = [loc EXCEPT ![p] = Returned(loc[p])]
    /\ pc' = [pc EXCEPT ![p] = "idle"]
    /\ UNCHANGED <<table, now, last, run, lock, serial, faults>>

\* lines 150 and 71-73: hit_rate_limit starts with the load, under a shared lock
hit_enter(p, client_address, client_id, max_user_hits) ==
    /\ pc[p] = "idle"
    /\ may_lock_shared(p)
    /\ lock' = [lock EXCEPT ![p] = "shared"]
    /\ loc' = [loc EXCEPT ![p] =
                 [Frame(p, "hit") EXCEPT
                    !.client_address = client_address,
                    !.client_id = client_id,
                    !.max_user_hits = max_user_hits]]
    /\ pc' = [pc EXCEPT ![p] = "hit_load"]
    /\ UNCHANGED <<table, now, last_expire, last, run, serial, faults>>

hit_lock(p, client_address, client_id, max_user_hits) ==
    /\ Started < MaxCalls
    /\ hit_enter(p, client_address, client_id, max_user_hits)

\* line 75
hit_load(p) ==
    /\ pc[p] = "hit_load"
    /\ load_step(p, "hit_release")
    /\ UNCHANGED <<table, now, last_expire, last, run, lock, serial, faults>>

\* lines 76-77, then lines 151-167 on the loaded table, and the return
hit_release(p) ==
    LET done == hit_rate_limit_check(loc[p].rate_limits, loc[p].client_address,
                                     loc[p].client_id, loc[p].max_user_hits)
    IN  /\ pc[p] = "hit_release"
        /\ lock' = [lock EXCEPT ![p] = "none"]
        /\ loc' = [loc EXCEPT ![p] =
                     Returned([loc[p] EXCEPT !.refuse = done.refuse,
                                             !.raised = done.raised])]
        /\ pc' = [pc EXCEPT ![p] = "idle"]
        /\ UNCHANGED <<table, now, last_expire, last, run, serial, faults>>

---------------------------------------------------------------------------
(* Passwords, policies and tokens of mig/shared/pwhash.py.                 *)
(*                                                                         *)
(* A string is the sequence of its symbols.  A policy string is written    *)
(* with each policy keyword as one symbol: no keyword is a prefix of       *)
(* another, so == and startswith on the symbols agree with those on the    *)
(* characters.                                                             *)

POLICY_NONE == "none"

POLICY_WEAK == "weak"

POLICY_MEDIUM == "medium"

POLICY_HIGH == "high"

POLICY_MODERN == "modern"

POLICY_CUSTOM == "custom"

PolicySymbols ==
    {POLICY_NONE, POLICY_WEAK, POLICY_MEDIUM, POLICY_HIGH, POLICY_MODERN,
     POLICY_CUSTOM, ":", "1", "2", "x"}

Strings(symbols, max_len) == UNION {[1..n -> symbols] : n \in 0..max_len}

Digits == {"0", "1", "2", "3", "4"}

DigitValue(c) == CHOOSE n \in 0..4 : ToString(n) = c

IsDigits(str) == Len(str) > 0 /\ \A i \in 1..Len(str) : str[i] \in Digits

\* int(str) for a string of digits
RECURSIVE int(_)
int(str) ==
    IF str = <<>> THEN 0
    ELSE 10 * int(SubSeq(str, 1, Len(str) - 1)) + DigitValue(str[Len(str)])

\* str.split(sep, maxsplit)
RECURSIVE split(_, _, _)
split(str, sep, maxsplit) ==
    IF maxsplit = 0 \/ \A i \in 1..Len(str) : str[i] # sep
    THEN <<str>>
    ELSE LET at == CHOOSE i \in 1..Len(str) :
                      str[i] = sep /\ \A j \in 1..(i - 1) : str[j] # sep
         IN  <<SubSeq(str, 1, at - 1)>>
                \o split(SubSeq(str, at + 1, Len(str)), sep, maxsplit - 1)

startswith(str, prefix) == Len(str) > 0 /\ str[1] = prefix

Requirements(min_len, min_classes, errors) ==
    [min_len |-> min_len, min_classes |-> min_classes, errors |-> errors]

\* line 437
ParseFailed(error) == Requirements(-1, 42, <<error>>)

\* lines 448-454
modern_requirements(site_policy) ==
    LET parts == split(site_policy, ":", 1)
    IN  IF Len(parts) = 2 /\ IsDigits(parts[2])
        THEN Requirements(int(parts[2]), 1, <<>>)
        ELSE ParseFailed("modern password policy on invalid format")

\* lines 455-461
custom_requirements(site_policy) ==
    LET parts == split(site_policy, ":", 2)
    IN  IF Len(parts) = 3 /\ IsDigits(parts[2]) /\ IsDigits(parts[3])
        THEN Requirements(int(parts[2]), int(parts[3]), <<>>)
        ELSE ParseFailed("custom password policy on invalid format")

\* lines 433-467
password_requirements(site_policy) ==
    IF site_policy = <<POLICY_NONE>> THEN Requirements(0, 0, <<>>)
    ELSE IF site_policy = <<POLICY_WEAK>> THEN Requirements(6, 2, <<>>)
    ELSE IF site_policy = <<POLICY_MEDIUM>> THEN Requirements(8, 3, <<>>)
    ELSE IF site_policy = <<POLICY_HIGH>> THEN Requirements(10, 4, <<>>)
    ELSE IF startswith(site_policy, POLICY_MODERN)
    THEN modern_requirements(site_policy)
    ELSE IF startswith(site_policy, POLICY_CUSTOM)
    THEN custom_requirements(site_policy)
    ELSE ParseFailed("unknown password policy keyword")

\* the limiter at rest, while a function of pwhash.py is applied
LimiterAtRest ==
    /\ table = EmptyDict
    /\ now = StartTime
    /\ last_expire = 0
    /\ run = NoRun
    /\ pc = [p \in Procs |-> "idle"]
    /\ lock = [p \in Procs |-> "none"]
    /\ loc = [p \in Procs |-> NoFrame]
    /\ serial = EmptyDict
    /\ faults = FALSE

LimiterUnchanged ==
    UNCHANGED <<table, now, last_expire, run, pc, lock, loc, serial, faults>>

\* a call that is about to run, with its arguments
Pending(name, args) == [op |-> "pending", name |-> name, args |-> args]

\* a call that has returned
Done(name, args, result) == [op |-> name, args |-> args, result |-> result]

apply_password_requirements ==
    /\ last.op = "pending"
    /\ last.name = "password_requirements"
    /\ last' = Done("password_requirements", last.args,
                    password_requirements(last.args.site_policy))
    /\ LimiterUnchanged

\* lines 39 and 507-508: the class of a password character
CharClass(c) ==
    IF c = "a" THEN "lower"
    ELSE IF c = "A" THEN "upper"
    ELSE IF c = "1" THEN "digits"
    ELSE "other"

\* lines 510-518
RECURSIVE collect_classes(_, _)
collect_classes(password, pw_classes) ==
    IF password = <<>> THEN pw_classes
    ELSE LET i == Head(password)
         IN  IF CharClass(i) = "other" /\ "other" \notin pw_classes
             THEN collect_classes(Tail(password), pw_classes \cup {"other"})
             ELSE collect_classes(Tail(password),
                     pw_classes \cup (IF CharClass(i) = "other" THEN {}
                                      ELSE {CharClass(i)}))

\* what a call ends with: a value, or an exception of a kind
Value(value) == [raised |-> "", value |-> value]

Raise(kind, msg) == [raised |-> kind, value |-> msg]

\* a length that would have to exceed the minimum
too_short_or_equal(password, min_len) == Len(password) <= min_len

\* line 504
too_short(password, min_len) == Len(password) < min_len

\* lines 478-485
parse_password_policy(configuration, use_legacy) ==
    password_requirements(IF use_legacy
                          THEN configuration.site_password_legacy_policy
                          ELSE configuration.site_password_policy)

\* lines 488-535; cracklib is "off" (site_password_cracklib unset), "missing"
\* (set, but the module failed to import), or set with a checker that
\* "accepts" or "refuses" the password
\* a message is the sequence of its parts
policy_fail_msg(use_legacy) ==
    IF use_legacy
    THEN "password does not fit password legacy policy"
    ELSE "password does not fit password policy"

assure_password_strength_helper(configuration, password, use_legacy) ==
    LET policy == parse_password_policy(configuration, use_legacy)
    IN  IF policy.min_len < 0 \/ policy.min_classes > 4
        THEN Raise("Exception", <<"parse password policy failed">>)
        ELSE IF too_short(password, policy.min_len)
        THEN Raise("ValueError",
                   <<policy_fail_msg(use_legacy), "password too short">>)
        ELSE IF Cardinality(collect_classes(password, {})) < policy.min_classes
        THEN Raise("ValueError",
                   <<policy_fail_msg(use_legacy), "password too simple">>)
        ELSE IF configuration.cracklib = "missing"
        THEN Raise("Exception", <<"cracklib requested in conf but not available">>)
        ELSE IF configuration.cracklib = "refuses"
        THEN Raise("ValueError", <<"cracklib refused password">>)
        ELSE Value(TRUE)

apply_assure_password_strength_helper ==
    /\ last.op = "pending"
    /\ last.name = "assure_password_strength_helper"
    /\ last' = Done("assure_password_strength_helper", last.args,
                    assure_password_strength_helper(last.args.configuration,
                                                    last.args.password,
                                                    last.args.use_legacy))
    /\ LimiterUnchanged

\* line 555: the legacy policy is tried when one is configured and the caller
\* allows it
legacy_applies_always(site_legacy_policy, allow_legacy) == TRUE

legacy_applies(site_legacy_policy, allow_legacy) ==
    site_legacy_policy # <<>> /\ allow_legacy

\* the outcome of a call together with the use_legacy arguments of the helper
\* calls it made, in order
Outcome(outcome, helper_calls) ==
    [raised |-> outcome.raised, value |-> outcome.value,
     helper_calls |-> helper_calls]

\* lines 538-569: only ValueError is caught, any other exception of the helper
\* leaves the function as it is
assure_password_strength(configuration, password, allow_legacy) ==
    LET current == assure_password_strength_helper(configuration, password, FALSE)
        legacy == assure_password_strength_helper(configuration, password, TRUE)
    IN  IF current.raised # "ValueError"
        THEN Outcome(current, <<FALSE>>)
        ELSE IF ~legacy_applies(configuration.site_password_legacy_policy,
                                allow_legacy)
        THEN Outcome(current, <<FALSE>>)
        ELSE Outcome(legacy, <<FALSE, TRUE>>)

apply_assure_password_strength ==
    /\ last.op = "pending"
    /\ last.name = "assure_password_strength"
    /\ last' = Done("assure_password_strength", last.args,
                    assure_password_strength(last.args.configuration,
                                             last.args.password,
                                             last.args.allow_legacy))
    /\ LimiterUnchanged

---------------------------------------------------------------------------
(* Password hashes: byte strings and texts are sequences of symbols *)

SALT_LENGTH == 12

KEY_LENGTH == 24

HASH_FUNCTION == "sha256"

COST_FACTOR == 10000

\* the names hashlib knows, as far as the stored values of the model use them
valid_hash_algos == {"md5", HASH_FUNCTION}

\* '{}'.format(n) of a natural number
RECURSIVE format(_)
format(n) ==
    IF n < 10 THEN <<ToString(n)>> ELSE format(n \div 10) \o <<ToString(n % 10)>>

\* base64: the encoding of a byte string is its bytes between two marks; the
\* empty text decodes to no bytes, and a text that is no encoding is an error
b64encode(bytes) == <<"b64(">> \o bytes \o <<")">>

b64decode(text) ==
    IF text = <<>> THEN Value(<<>>)
    ELSE IF Len(text) >= 2 /\ text[1] = "b64(" /\ text[Len(text)] = ")"
    THEN Value(SubSeq(text, 2, Len(text) - 1))
    ELSE Raise("binascii.Error", <<"Invalid base64-encoded string">>)

\* the HMAC key of a password: HMAC pads a key shorter than the block of the
\* hash with NUL bytes, so the NUL bytes at the end of a password are no part
\* of the key
RECURSIVE hmac_key(_)
hmac_key_kept(password) == password

hmac_key(password) ==
    IF password # <<>> /\ password[Len(password)] = "NUL"
    THEN hmac_key(SubSeq(password, 1, Len(password) - 1))
    ELSE password

\* hashlib.pbkdf2_hmac: the derived key is a term over what it is derived
\* from, so that two keys are equal exactly when hash, HMAC key, salt and
\* iterations are; dklen bytes of it are returned
pbkdf2_hmac(hash_name, password, salt, iterations, dklen) ==
    IF hash_name \notin valid_hash_algos
    THEN Raise("ValueError", <<"unsupported hash type">>)
    ELSE IF iterations < 1
    THEN Raise("ValueError", <<"iteration value must be greater than 0.">>)
    ELSE IF dklen < 1
    THEN Raise("ValueError", <<"key length must be greater than 0.">>)
    ELSE Value(<<"pbkdf2", hash_name>> \o format(iterations) \o <<"salt">>
                  \o salt \o <<"key">> \o hmac_key(password))

\* len() of a byte string: a derived key has the length it was derived with,
\* which is KEY_LENGTH for every key make_hash stores
len(bytes) ==
    IF bytes # <<>> /\ bytes[1] = "pbkdf2" THEN KEY_LENGTH ELSE Len(bytes)

\* sep.join(fields)
RECURSIVE join(_, _)
join(fields, sep) ==
    IF fields = <<>> THEN <<>>
    ELSE IF Len(fields) = 1 THEN fields[1]
    ELSE fields[1] \o <<sep>> \o join(Tail(fields), sep)

\* lines 76-89, for the salt bytes urandom returned
make_hash(password, urandom) ==
    LET salt == b64encode(urandom)
    IN  join(<<<<"PBKDF2">>, <<HASH_FUNCTION>>, format(COST_FACTOR), salt,
               b64encode(pbkdf2_hmac(HASH_FUNCTION, password, salt,
                                     COST_FACTOR, KEY_LENGTH).value)>>, "$")

\* lines 588-597, a hash without collisions; md5 is the default algorithm
make_simple_hash_algo(val, algo) == <<algo, "(">> \o val \o <<")">>

make_simple_hash(val) == make_simple_hash_algo(val, "md5")

\* a cache argument is None or a dict
NoCache == [dict |-> FALSE]

Dict(items) == [dict |-> TRUE, items |-> items]

\* isinstance(cache, dict) and cache.get(key, None) == stored
cache_hit(cache, key, stored) ==
    /\ cache.dict
    /\ key \in DOMAIN cache.items
    /\ cache.items[key] = stored

\* cache[key] = stored
cache_set(cache, key, stored) ==
    Dict([k \in DOMAIN cache.items \cup {key} |->
             IF k = key THEN stored ELSE cache.items[k]])

\* the outcome of a check, whether it got as far as the stored value after the
\* cache lookup, and the cache it leaves
Checked(outcome, verified, cache) ==
    [raised |-> outcome.raised, value |-> outcome.value,
     verified |-> verified, cache |-> cache]

\* lines 136-151: the constant time comparison and the cache update
matched(match, cache, key, stored) ==
    Checked(Value(match), TRUE,
            IF cache.dict /\ match THEN cache_set(cache, key, stored) ELSE cache)

\* lines 126-135
verify_hash(password, hashed, cache) ==
    LET fields == split(hashed, "$", -1)
        hash_a == b64decode(fields[5])
        hash_b == pbkdf2_hmac(IF Len(fields[2]) = 1 THEN fields[2][1] ELSE "",
                              password, fields[4], int(fields[3]),
                              len(hash_a.value))
    IN  IF Len(fields) # 5
        THEN Checked(Raise("ValueError", <<"values to unpack">>), TRUE, cache)
        ELSE IF fields[1] # <<"PBKDF2">>
        THEN Checked(Raise("AssertionError", <<>>), TRUE, cache)
        ELSE IF hash_a.raised # ""
        THEN Checked(hash_a, TRUE, cache)
        ELSE IF ~IsDigits(fields[3])
        THEN Checked(Raise("ValueError", <<"invalid literal for int()">>),
                     TRUE, cache)
        ELSE IF hash_b.raised # ""
        THEN Checked(hash_b, TRUE, cache)
        ELSE matched(hash_a.value = hash_b.value, cache,
                     make_simple_hash(password), hashed)

\* lines 115-125 and their like in the other checks: any exception of the
\* policy check is caught
policy_fits_skipped(configuration, password, allow_legacy) == TRUE

policy_fits(configuration, password, allow_legacy) ==
    assure_password_strength(configuration, password, allow_legacy).raised = ""

\* lines 92-151
check_hash(configuration, password, hashed, hash_cache, strict_policy, allow_legacy) ==
    IF cache_hit(hash_cache, make_simple_hash(password), hashed)
    THEN Checked(Value(TRUE), FALSE, hash_cache)
    ELSE IF strict_policy /\ ~policy_fits(configuration, password, allow_legacy)
    THEN Checked(Value(FALSE), FALSE, hash_cache)
    ELSE verify_hash(password, hashed, hash_cache)

apply_check_hash ==
    /\ last.op = "pending"
    /\ last.name = "check_hash"
    /\ last' = Done("check_hash", last.args,
                    check_hash(last.args.configuration, last.args.password,
                               last.args.stored, last.args.cache,
                               last.args.strict_policy, last.args.allow_legacy))
    /\ LimiterUnchanged

---------------------------------------------------------------------------
(* The legacy schemes: digest, scramble and encrypt *)

\* int(b16encode(bytes), 16): the NUL bytes in front are no part of the number
RECURSIVE int16(_)
int16(bytes) ==
    IF bytes # <<>> /\ bytes[1] = "NUL" THEN int16(Tail(bytes)) ELSE bytes

\* '{0:X}'.format(int(salt, 16) ^ number), as a term over salt and number: for
\* one salt, two numbers give the same text exactly when they are equal
xor16(salt, number) == <<"xor(">> \o salt \o <<")">> \o number

\* lines 154-161
scramble_digest(salt, digest) == xor16(salt, int16(digest))

\* ':'.join([realm, username, password])
merged_creds(realm, username, password) ==
    realm \o <<":">> \o username \o <<":">> \o password

\* lines 174-179
make_digest(realm, username, password, salt) ==
    <<"DIGEST", "$", "custom", "$", "CONFSALT", "$">>
       \o scramble_digest(salt, merged_creds(realm, username, password))

\* iterating a bytes password under Python 3 yields integers, and line 512
\* raises TypeError for the first of them; the checks before the loop are
\* those of the text password
bytes_strength_helper(configuration, password, use_legacy) ==
    LET text == assure_password_strength_helper(configuration, password,
                                                use_legacy)
    IN  IF text.raised = "Exception" /\ text.value
                                          = <<"parse password policy failed">>
        THEN text
        ELSE IF too_short(password,
                          parse_password_policy(configuration, use_legacy).min_len)
        THEN text
        ELSE IF password # <<>>
        THEN Raise("TypeError", <<"'in <string>' requires string as left operand">>)
        ELSE text

\* lines 538-569 for a bytes password under Python 3
bytes_password_strength(configuration, password, allow_legacy) ==
    LET current == bytes_strength_helper(configuration, password, FALSE)
        legacy == bytes_strength_helper(configuration, password, TRUE)
    IN  IF current.raised # "ValueError"
        THEN Outcome(current, <<FALSE>>)
        ELSE IF ~legacy_applies(configuration.site_password_legacy_policy,
                                allow_legacy)
        THEN Outcome(current, <<FALSE>>)
        ELSE Outcome(legacy, <<FALSE, TRUE>>)

\* the policy check of a password that is text, or bytes under Python 3
typed_policy_fits(configuration, password, allow_legacy, py3_bytes) ==
    IF py3_bytes
    THEN bytes_password_strength(configuration, password, allow_legacy).raised = ""
    ELSE policy_fits(configuration, password, allow_legacy)

\* lines 181-215; the policy check runs whatever strict_policy is, and only
\* decides with it
check_digest(configuration, realm, username, password, digest, salt, digest_cache, strict_policy, allow_legacy) ==
    LET creds_hash == make_simple_hash(merged_creds(realm, username, password))
    IN  IF cache_hit(digest_cache, creds_hash, digest)
        THEN Checked(Value(TRUE), FALSE, digest_cache)
        ELSE IF ~policy_fits(configuration, password, allow_legacy)
                /\ strict_policy
        THEN Checked(Value(FALSE), FALSE, digest_cache)
        ELSE matched(make_digest(realm, username, password, salt) = digest,
                     digest_cache, creds_hash, digest)

apply_check_digest ==
    /\ last.op = "pending"
    /\ last.name = "check_digest"
    /\ last' = Done("check_digest", last.args,
                    check_digest(last.args.configuration, last.args.realm,
                                 last.args.username, last.args.password,
                                 last.args.stored, last.args.salt,
                                 last.args.cache, last.args.strict_policy,
                                 last.args.allow_legacy))
    /\ LimiterUnchanged

\* lines 218-226: b64encode and b16encode take bytes only, which a text
\* password under Python 3 is not
scramble_password(salt, password, py3_text) ==
    IF py3_text
    THEN Raise("TypeError", <<"a bytes-like object is required, not 'str'">>)
    ELSE IF salt = <<>>
    THEN Value(b64encode(password))
    ELSE Value(xor16(salt, int16(password)))

\* lines 244-246
make_scramble(password, salt, py3_text) == scramble_password(salt, password, py3_text)

\* lines 249-282; python is 2 or 3, and as_bytes tells whether the caller
\* passes the password as bytes (under Python 2 every string is bytes)
check_scramble(configuration, password, scrambled, salt, scramble_cache, strict_policy, allow_legacy, python, as_bytes) ==
    LET computed == make_scramble(password, salt, python = 3 /\ ~as_bytes)
    IN  IF cache_hit(scramble_cache, password, scrambled)
        THEN Checked(Value(TRUE), FALSE, scramble_cache)
        ELSE IF ~typed_policy_fits(configuration, password, allow_legacy,
                                   python = 3 /\ as_bytes)
                /\ strict_policy
        THEN Checked(Value(FALSE), FALSE, scramble_cache)
        ELSE IF computed.raised # ""
        THEN Checked(computed, TRUE, scramble_cache)
        ELSE matched(computed.value = scrambled, scramble_cache, password,
                     scrambled)

apply_check_scramble ==
    /\ last.op = "pending"
    /\ last.name = "check_scramble"
    /\ last' = Done("check_scramble", last.args,
                    check_scramble(last.args.configuration, last.args.password,
                                   last.args.stored, last.args.salt,
                                   last.args.cache, last.args.strict_policy,
                                   last.args.allow_legacy, last.args.python,
                                   last.args.as_bytes))
    /\ LimiterUnchanged

\* lines 321-332: a Fernet token is made from the key, the password and a
\* fresh initialisation vector; has_cryptography tells whether the module
\* was imported
keyword_auto == <<"AUTO">>

\* lines 284-318: the key is derived from the salt of the configuration for
\* the secret AUTO, and from the secret itself otherwise
prepare_fernet_key(configuration, secret) ==
    IF secret = <<>>
    THEN Raise("Exception", <<"cannot encrypt/decrypt without a secret">>)
    ELSE IF secret # keyword_auto
    THEN Value(<<"key(">> \o secret)
    ELSE IF configuration.site_password_salt # <<>>
    THEN Value(<<"key(", "scramble(">> \o configuration.site_password_salt)
    ELSE IF configuration.site_digest_salt # <<>>
    THEN Value(<<"key(", "scramble(">> \o configuration.site_digest_salt)
    ELSE Raise("Exception", <<"cannot encrypt/decrypt without a salt in conf">>)

\* Fernet(key).encrypt(password): the token names its key, its vector and
\* the password
fernet_encrypt(key, iv, password) == key \o <<",", iv, ")">> \o password

\* Fernet(key).decrypt(token): the password of a token made with the key,
\* and InvalidToken for every other text
fernet_decrypt(key, token) ==
    IF /\ Len(token) >= Len(key) + 3
       /\ SubSeq(token, 1, Len(key)) = key
       /\ token[Len(key) + 1] = ","
       /\ token[Len(key) + 3] = ")"
    THEN Value(SubSeq(token, Len(key) + 4, Len(token)))
    ELSE Raise("InvalidToken", <<>>)

\* lines 321-333 with the secret the caller names
encrypt_password_secret(configuration, password, secret, has_cryptography, iv) ==
    LET key == prepare_fernet_key(configuration, secret)
    IN  IF ~has_cryptography
        THEN Raise("Exception",
                   <<"cryptography requested in conf but not available">>)
        ELSE IF key.raised # "" THEN key
        ELSE Value(fernet_encrypt(key.value, iv, password))

\* lines 321-333 with the default secret
encrypt_password(configuration, password, has_cryptography, iv) ==
    encrypt_password_secret(configuration, password, keyword_auto,
                            has_cryptography, iv)

\* line 341: the key of the default secret, whatever secret the caller names
decrypt_key(configuration, secret) ==
    prepare_fernet_key(configuration, keyword_auto)

\* lines 336-347
decrypt_password(configuration, encrypted, secret, has_cryptography) ==
    LET key == decrypt_key(configuration, secret)
    IN  IF ~has_cryptography
        THEN Raise("Exception",
                   <<"cryptography requested in conf but not available">>)
        ELSE IF key.raised # "" THEN key
        ELSE fernet_decrypt(key.value, encrypted)

\* encrypt_password(configuration, password, secret)
apply_encrypt_password ==
    /\ last.op = "pending"
    /\ last.name = "encrypt_password"
    /\ \E iv \in {"iv1", "iv2"} :
         last' = [op |-> "encrypted", args |-> last.args,
                  encrypted |-> encrypt_password_secret(
                                    last.args.configuration, last.args.password,
                                    last.args.secret,
                                    last.args.has_cryptography, iv)]
    /\ LimiterUnchanged

\* decrypt_password(configuration, encrypted, secret) of what was encrypted
apply_decrypt_password ==
    /\ last.op = "encrypted"
    /\ last.encrypted.raised = ""
    /\ last' = Done("decrypt_password",
                    [configuration |-> last.args.configuration,
                     password |-> last.args.password,
                     secret |-> last.args.secret,
                     encrypted |-> last.encrypted.value],
                    decrypt_password(last.args.configuration,
                                     last.encrypted.value, last.args.secret,
                                     last.args.has_cryptography))
    /\ LimiterUnchanged

\* lines 350-352
make_encrypt(configuration, password, has_cryptography, iv) ==
    encrypt_password(configuration, password, has_cryptography, iv)

\* lines 355-389; force_utf8 makes the password bytes before the policy check
check_encrypt(configuration, password, encrypted, encrypt_cache, strict_policy, allow_legacy, python, has_cryptography, iv) ==
    LET computed == make_encrypt(configuration, password, has_cryptography, iv)
    IN  IF cache_hit(encrypt_cache, password, encrypted)
        THEN Checked(Value(TRUE), FALSE, encrypt_cache)
        ELSE IF ~typed_policy_fits(configuration, password, allow_legacy,
                                   python = 3)
                /\ strict_policy
        THEN Checked(Value(FALSE), FALSE, encrypt_cache)
        ELSE IF computed.raised # ""
        THEN Checked(computed, TRUE, encrypt_cache)
        ELSE matched(computed.value = encrypted, encrypt_cache, password,
                     encrypted)

\* the initialisation vectors os.urandom may return
IVs == {"iv1", "iv2"}

apply_check_encrypt ==
    /\ last.op = "pending"
    /\ last.name = "check_encrypt"
    /\ \E iv \in IVs :
         last' = Done("check_encrypt", last.args,
                      check_encrypt(last.args.configuration, last.args.password,
                                    last.args.stored, last.args.cache,
                                    last.args.strict_policy,
                                    last.args.allow_legacy, last.args.python,
                                    last.args.has_cryptography, iv))
    /\ LimiterUnchanged

---------------------------------------------------------------------------
(* CSRF tokens *)

\* the code points of the characters of operations, keys and values
ord(c) ==
    IF c = ":" THEN 58
    ELSE IF c = "_" THEN 95
    ELSE IF c = "a" THEN 97
    ELSE IF c = "b" THEN 98
    ELSE 111

\* str < other for two strings, as Python orders them
RECURSIVE less(_, _)
less(str, other) ==
    IF other = <<>> THEN FALSE
    ELSE IF str = <<>> THEN TRUE
    ELSE IF str[1] # other[1] THEN ord(str[1]) < ord(other[1])
    ELSE less(Tail(str), Tail(other))

\* list(args): the keys of a dict, in the order they were inserted; a dict
\* is the sequence of its <<key, values>> items in that order
list(args) == [i \in 1..Len(args) |-> args[i][1]]

\* args[key]
item(args, key) == (CHOOSE i \in 1..Len(args) : args[i][1] = key)

\* sorted(keys) for a list of different keys
RECURSIVE sorted(_)
sorted_kept(keys) == keys

sorted(keys) ==
    IF keys = <<>> THEN <<>>
    ELSE LET first == CHOOSE i \in 1..Len(keys) :
                         \A j \in 1..Len(keys) : ~less(keys[j], keys[i])
         IN  <<keys[first]>>
                \o sorted(SubSeq(keys, 1, first - 1)
                             \o SubSeq(keys, first + 1, Len(keys)))

\* '%s' % limit for no limit
None == <<"None">>

\* lines 392-403: "%s" % (int(salt, 16) ^ int(b16encode(merged), 16)) is a
\* term over salt and number like xor16, hashed with sha256
make_csrf_token(configuration, method, operation, client_id, limit) ==
    LET salt == configuration.site_digest_salt
        merged == join(<<method, operation, client_id, limit>>, ":")
        xor_id == <<"xor10(">> \o salt \o <<")">> \o int16(merged)
    IN  make_simple_hash_algo(xor_id, "sha256")

\* lines 423-426: csrf_op += '_%s' % val for the values of one key
RECURSIVE append_values(_, _)
append_values(csrf_op, values) ==
    IF values = <<>> THEN csrf_op
    ELSE append_values(csrf_op \o <<"_">> \o Head(values), Tail(values))

\* lines 422-427
RECURSIVE append_keys(_, _, _, _)
append_keys(csrf_op, sorted_keys, args, skip_fields) ==
    IF sorted_keys = <<>> THEN csrf_op
    ELSE LET key == Head(sorted_keys)
         IN  IF key \in skip_fields
             THEN append_keys(csrf_op, Tail(sorted_keys), args, skip_fields)
             ELSE append_keys(append_values(csrf_op \o <<"_">> \o key,
                                            args[item(args, key)][2]),
                              Tail(sorted_keys), args, skip_fields)

\* lines 417-427: the operation with the arguments packed into it
extended_operation(operation, args, skip_fields) ==
    append_keys(operation, sorted(list(args)), args, skip_fields)

\* lines 406-430
make_csrf_trust_token(configuration, method, operation, args, client_id, limit, skip_fields) ==
    make_csrf_token(configuration, method,
                    extended_operation(operation, args, skip_fields),
                    client_id, limit)

apply_make_csrf_trust_token ==
    /\ last.op = "pending"
    /\ last.name = "make_csrf_trust_token"
    /\ last' = Done("make_csrf_trust_token", last.args,
                    make_csrf_trust_token(last.args.configuration,
                                          last.args.method, last.args.operation,
                                          last.args.args, last.args.client_id,
                                          last.args.limit, last.args.skip_fields))
    /\ LimiterUnchanged

---------------------------------------------------------------------------
(* Password generation *)

\* lines 629-636: one character stands for each class of the charset
charset(classes) ==
    {"a"} \cup (IF classes > 1 THEN {"A"} ELSE {})
          \cup (IF classes > 2 THEN {"1"} ELSE {})
          \cup (IF classes > 3 THEN {"#"} ELSE {})

\* lines 615-617: the strings SystemRandom may choose; range(count) is empty
\* for a count below one
generate_random_ascii(count, chars) ==
    [1..(IF count < 0 THEN 0 ELSE count) -> chars]

\* a call in its loop, before attempt number i + 1
Generating(args, i) == [op |-> "generating", args |-> args, i |-> i]

\* what the call ends with, after so many attempts
Generated(args, outcome, attempts) ==
    Done("generate_random_password", args,
         [raised |-> outcome.raised, value |-> outcome.value,
          attempts |-> attempts])

\* lines 637-646: one attempt; only ValueError leads to the next one
generate_attempt ==
    /\ last.op = "generating"
    /\ last.i < last.args.tries
    /\ LET policy == parse_password_policy(last.args.configuration, FALSE)
       IN  \E password \in generate_random_ascii(policy.min_len,
                                                 charset(policy.min_classes)) :
             LET fits == assure_password_strength(last.args.configuration,
                                                  password, FALSE)
             IN  last' = IF fits.raised = ""
                         THEN Generated(last.args, Value(password), last.i + 1)
                         ELSE IF fits.raised = "ValueError"
                         THEN Generating(last.args, last.i + 1)
                         ELSE Generated(last.args,
                                        Raise(fits.raised, fits.value),
                                        last.i + 1)
    /\ LimiterUnchanged

\* lines 647-648: the attempts are used up
generate_give_up ==
    /\ last.op = "generating"
    /\ last.i >= last.args.tries
    /\ last' = Generated(last.args,
                         Raise("ValueError",
                               <<"Failed to generate suitable password!">>),
                         last.i)
    /\ LimiterUnchanged

Init ==
    /\ table = EmptyDict
    /\ now = StartTime
    /\ last_expire = 0
    /\ last = NoCall
    /\ run = NoRun
    /\ pc = [p \in Procs |-> "idle"]
    /\ lock = [p \in Procs |-> "none"]
    /\ loc = [p \in Procs |-> NoFrame]
    /\ serial = EmptyDict
    /\ faults = FALSE

(* The stall of a rate limited client *)

PenalizeNext ==
    \E user_hits \in -PenalizeRange..PenalizeRange,
       max_user_hits \in -PenalizeRange..PenalizeRange :
        penalize_rate_limit(user_hits, max_user_hits)

PenalizeSpec == Init /\ [][PenalizeNext]_vars

(* The calls and their results *)

Next ==
    \/ Tick
    \/ \E client_address \in Addresses, client_id \in Users,
          login_success \in BOOLEAN :
         \E secret_arg \in SecretArgsOf(login_success) :
            /\ update_rate_limit(client_address, client_id, login_success,
                                 secret_arg)
            /\ last' = update_result(client_address, client_id, login_success,
                                     secret_arg)
            /\ UNCHANGED run
    \/ \E fail_cache \in FailCaches, expire_delay \in ExpireDelays :
            /\ expire_rate_limit(fail_cache, expire_delay)
            /\ last' \in expire_results(fail_cache, expire_delay)
            /\ UNCHANGED run

Spec == Init /\ [][Next]_vars

(* The admission check on every table the calls build *)

HitNext ==
    \/ Tick
    \/ \E client_address \in WideAddresses, client_id \in Users,
          login_success \in BOOLEAN :
         \E secret_arg \in SecretArgsOf(login_success) :
            /\ update_rate_limit(client_address, client_id, login_success,
                                 secret_arg)
            /\ last' = NoCall
            /\ UNCHANGED run
    \/ \E fail_cache \in FailCaches, expire_delay \in ExpireDelays :
            /\ expire_rate_limit(fail_cache, expire_delay)
            /\ last' = NoCall
            /\ UNCHANGED run
    \/ \E client_address \in WideAddresses, client_id \in Users,
          max_user_hits \in MaxUserHits :
            /\ hit_rate_limit(client_address, client_id, max_user_hits)
            /\ last' = hit_result(client_address, client_id, max_user_hits)
            /\ UNCHANGED run

HitSpec == Init /\ [][HitNext]_vars

(* The streaks of failed updates *)

StreakNext ==
    \/ Tick
    \/ \E client_address \in WideAddresses, client_id \in Users,
          login_success \in BOOLEAN :
         \E secret_arg \in SecretArgsOf(login_success) :
            /\ update_rate_limit(client_address, client_id, login_success,
                                 secret_arg)
            /\ run' = NextRun(client_address, client_id, login_success,
                              secret_arg)
            /\ run'.calls <= MaxFails
            /\ UNCHANGED last

StreakSpec == Init /\ [][StreakNext]_vars

(* Several processes *)

ConcUsers == {"u1", "hits"}

ConcSecrets == {"s1", "s2"}

ConcFailCaches == {1}

ConcMaxUserHits == {1}

FaultSecrets == {"s1"}

Steps(p, users, secrets) ==
    \/ \E client_address \in Addresses, client_id \in users,
          login_success \in BOOLEAN :
         \E secret_arg \in (IF login_success THEN {NoSecret} ELSE secrets) :
            update_begin(p, client_address, client_id, login_success,
                         secret_arg)
    \/ update_lock(p)
    \/ update_load(p)
    \/ update_try(p)
    \/ update_release(p)
    \/ \E fail_cache \in ConcFailCaches, expire_delay \in ExpireDelays :
            expire_begin(p, fail_cache, expire_delay)
    \/ expire_lock(p)
    \/ expire_load(p)
    \/ expire_try(p)
    \/ expire_release(p)
    \/ expire_touch(p)
    \/ \E client_address \in Addresses, client_id \in users,
          max_user_hits \in ConcMaxUserHits :
            hit_lock(p, client_address, client_id, max_user_hits)
    \/ hit_load(p)
    \/ hit_release(p)

ConcNext ==
    \/ Tick
    \/ \E p \in Procs : Steps(p, ConcUsers, ConcSecrets)

ConcSpec == Init /\ [][ConcNext]_vars

(* Several processes on a store that may fail *)

FaultInit ==
    /\ table = EmptyDict
    /\ now = StartTime
    /\ last_expire = 0
    /\ last = NoCall
    /\ run = NoRun
    /\ pc = [p \in Procs |-> "idle"]
    /\ lock = [p \in Procs |-> "none"]
    /\ loc = [p \in Procs |-> NoFrame]
    /\ serial = EmptyDict
    /\ faults = TRUE

FaultNext == \E p \in Procs : Steps(p, ConcUsers, FaultSecrets)

FaultSpec == FaultInit /\ [][FaultNext]_vars

(* The policy strings *)

SitePolicies == Strings(PolicySymbols, MaxPolicyLen)

PolicyInit ==
    /\ LimiterAtRest
    /\ \E site_policy \in SitePolicies :
         last = Pending("password_requirements", [site_policy |-> site_policy])

PolicySpec == PolicyInit /\ [][apply_password_requirements]_vars

(* The passwords under a site's policies *)

PasswordChars == {"a", "A", "1", "#"}

Passwords == Strings(PasswordChars, MaxPwLen)

StrengthPolicies ==
    {<<POLICY_NONE>>, <<POLICY_CUSTOM, ":", "2", ":", "2">>,
     <<POLICY_CUSTOM, ":", "3", ":", "3">>, <<POLICY_CUSTOM, ":", "4", ":", "4">>,
     <<POLICY_CUSTOM, ":", "1", ":", "3">>, <<"x">>}

\* an unset legacy policy is the empty string
Configurations ==
    [site_password_policy : StrengthPolicies,
     site_password_legacy_policy : StrengthPolicies \cup {<<>>},
     cracklib : {"off", "missing", "accepts", "refuses"}]

StrengthInit ==
    /\ LimiterAtRest
    /\ \E configuration \in Configurations, password \in Passwords,
          use_legacy \in BOOLEAN :
         \/ last = Pending("assure_password_strength_helper",
                           [configuration |-> configuration,
                            password |-> password,
                            use_legacy |-> use_legacy])
         \/ last = Pending("assure_password_strength",
                           [configuration |-> configuration,
                            password |-> password,
                            allow_legacy |-> use_legacy])

StrengthNext ==
    \/ apply_assure_password_strength_helper
    \/ apply_assure_password_strength

StrengthSpec == StrengthInit /\ [][StrengthNext]_vars

MaxCheckLen == 2

CheckChars == {"a", "1", "NUL"}

CheckPasswords == Strings(CheckChars, MaxCheckLen)

CheckConfigurations ==
    [site_password_policy : {<<POLICY_NONE>>,
                             <<POLICY_CUSTOM, ":", "2", ":", "2">>, <<"x">>},
     site_password_legacy_policy : {<<>>, <<POLICY_NONE>>},
     cracklib : {"off"},
     site_password_salt : {<<"5", "A">>}]

\* the salts os.urandom may return
Salts == {<<"s1">>, <<"s2">>}

\* the hash make_hash stored for some password
StoredHashes == {make_hash(password, salt) : password \in CheckPasswords, salt \in Salts}

\* stored values that are no hash of make_hash: no text, four and six
\* fields, another algorithm, an unknown hash function, an iteration count
\* that is no number or is zero, a key that is no base64 and an empty key
MalformedHashes ==
    LET good == split(make_hash(<<"a">>, <<"s1">>), "$", -1)
    IN  {join(fields, "$") :
            fields \in {<<>>, SubSeq(good, 1, 4), good \o <<<<"x">>>>,
                        [good EXCEPT ![1] = <<"MD5">>],
                        [good EXCEPT ![2] = <<"nohash">>],
                        [good EXCEPT ![3] = <<"x">>],
                        [good EXCEPT ![3] = <<"0">>],
                        [good EXCEPT ![5] = <<"A">>],
                        [good EXCEPT ![5] = <<>>]}}

Realm == <<"r">>

Username == <<"u">>

DigestSalt == <<"5", "A">>

\* the stored value of a legacy scheme is the one of the password of the
\* call, the one of another password or no value of the scheme at all
StoredPasswords(password) == {password, <<"a">>}

StoredDigests(password) ==
    {make_digest(Realm, Username, stored, DigestSalt) :
        stored \in StoredPasswords(password)} \cup {<<"x">>}

ScrambleSalts == {<<>>, DigestSalt}

StoredScrambles(password) ==
    {make_scramble(stored, salt, FALSE).value :
        stored \in StoredPasswords(password), salt \in ScrambleSalts}
      \cup {<<"x">>}

StoredEncrypts(configuration, password) ==
    {make_encrypt(configuration, stored, TRUE, "iv1").value :
        stored \in StoredPasswords(password)} \cup {<<"x">>}

\* no cache, an empty one, one that holds the stored value for the key and
\* one that holds another value for it
Caches(key, stored) ==
    {NoCache, Dict(<<>>), Dict([k \in {key} |-> stored]),
     Dict([k \in {key} |-> <<"old">>])}

CheckInit ==
    /\ LimiterAtRest
    /\ \E configuration \in CheckConfigurations, password \in CheckPasswords,
          strict_policy \in BOOLEAN, allow_legacy \in BOOLEAN :
         LET call == [configuration |-> configuration, password |-> password,
                      strict_policy |-> strict_policy,
                      allow_legacy |-> allow_legacy]
         IN  \/ \E stored \in StoredHashes \cup MalformedHashes :
                 \E cache \in Caches(make_simple_hash(password), stored) :
                    last = Pending("check_hash",
                                   call @@ [stored |-> stored, cache |-> cache])
             \/ \E stored \in StoredDigests(password) :
                 \E cache \in Caches(make_simple_hash(
                                        merged_creds(Realm, Username, password)),
                                     stored) :
                    last = Pending("check_digest",
                                   call @@ [stored |-> stored, cache |-> cache,
                                            realm |-> Realm,
                                            username |-> Username,
                                            salt |-> DigestSalt])
             \/ \E stored \in StoredScrambles(password), salt \in ScrambleSalts,
                   python \in {2, 3}, as_bytes \in BOOLEAN :
                 \E cache \in Caches(password, stored) :
                    /\ python = 2 => as_bytes
                    /\ last = Pending("check_scramble",
                                      call @@ [stored |-> stored, cache |-> cache,
                                               salt |-> salt, python |-> python,
                                               as_bytes |-> as_bytes])
             \/ \E stored \in StoredEncrypts(configuration, password), python \in {2, 3},
                   has_cryptography \in BOOLEAN :
                 \E cache \in Caches(password, stored) :
                    last = Pending("check_encrypt",
                                   call @@ [stored |-> stored, cache |-> cache,
                                            python |-> python,
                                            has_cryptography |-> has_cryptography])

CheckNext ==
    \/ apply_check_hash
    \/ apply_check_digest
    \/ apply_check_scramble
    \/ apply_check_encrypt

CheckSpec == CheckInit /\ [][CheckNext]_vars

MaxArgs == 2

MaxValues == 2

ArgKeys == {<<"a">>, <<"b">>, <<"a", "_", "a">>}

ArgValues == {<<"a">>, <<"a", "_", "a">>}

ValueLists == UNION {[1..n -> ArgValues] : n \in 0..MaxValues}

\* the dicts of up to MaxArgs keys, each in every order of insertion
ArgMaps ==
    {args \in UNION {[1..n -> ArgKeys \X ValueLists] : n \in 0..MaxArgs} :
        \A i, j \in 1..Len(args) : args[i][1] = args[j][1] => i = j}

Operations == {<<"o">>, <<"o", "_", "a">>}

SkipFields == {{}, {<<"b">>}}

TokenConfiguration == [site_digest_salt |-> <<"5", "A">>]

TokenInit ==
    /\ LimiterAtRest
    /\ \E operation \in Operations, args \in ArgMaps, skip_fields \in SkipFields :
         last = Pending("make_csrf_trust_token",
                        [configuration |-> TokenConfiguration,
                         method |-> <<"post">>, operation |-> operation,
                         args |-> args, client_id |-> <<"id">>,
                         limit |-> None, skip_fields |-> skip_fields])

TokenNext == apply_make_csrf_trust_token

TokenSpec == TokenInit /\ [][TokenNext]_vars

MaxTries == 2

GeneratePolicies ==
    {<<POLICY_NONE>>, <<POLICY_MODERN, ":", "3">>,
     <<POLICY_CUSTOM, ":", "1", ":", "2">>, <<POLICY_CUSTOM, ":", "2", ":", "2">>,
     <<POLICY_CUSTOM, ":", "3", ":", "3">>, <<POLICY_CUSTOM, ":", "4", ":", "4">>,
     <<"x">>}

GenerateInit ==
    /\ LimiterAtRest
    /\ \E site_policy \in GeneratePolicies,
          cracklib \in {"off", "missing", "accepts", "refuses"},
          tries \in 0..MaxTries :
         last = Generating([configuration |->
                               [site_password_policy |-> site_policy,
                                site_password_legacy_policy |-> <<>>,
                                cracklib |-> cracklib],
                            tries |-> tries], 0)

GenerateNext ==
    \/ generate_attempt
    \/ generate_give_up

GenerateSpec == GenerateInit /\ [][GenerateNext]_vars

---------------------------------------------------------------------------
(* Calls of one check that share a lookup cache *)

MaxChecks == 2

\* the cache and its scheme, the configuration and the interpreter stay; args
\* and result are those of the latest call
Shared(scheme, configuration, python, cache, calls, args, result) ==
    [op |-> "shared", scheme |-> scheme, configuration |-> configuration,
     python |-> python, cache |-> cache, calls |-> calls, args |-> args,
     result |-> result]

NoArgs == [password |-> <<>>, stored |-> <<>>, strict_policy |-> FALSE]

NoResult == Checked(Value(FALSE), FALSE, Dict(<<>>))

SharedInit ==
    /\ LimiterAtRest
    /\ \E scheme \in {"check_hash", "check_digest", "check_scramble",
                      "check_encrypt"},
          python \in {2, 3} :
         last = Shared(scheme,
                       [site_password_policy |->
                            <<POLICY_CUSTOM, ":", "2", ":", "2">>,
                        site_password_legacy_policy |-> <<>>,
                        cracklib |-> "off",
                        site_password_salt |-> DigestSalt],
                       python, Dict(<<>>), 0, NoArgs, NoResult)

\* the next call on the shared cache, which the call has updated in place
shared_call(scheme, args, result) ==
    /\ last.op = "shared"
    /\ last.scheme = scheme
    /\ last.calls < MaxChecks
    /\ last' = Shared(scheme, last.configuration, last.python, result.cache,
                      last.calls + 1, args, result)
    /\ LimiterUnchanged

shared_check_hash ==
    \E password \in CheckPasswords, strict_policy \in BOOLEAN :
      \E stored \in {make_hash(other, <<"s1">>) :
                        other \in StoredPasswords(password)} :
        shared_call("check_hash",
                    [password |-> password, stored |-> stored,
                     strict_policy |-> strict_policy],
                    check_hash(last.configuration, password, stored, last.cache,
                               strict_policy, FALSE))

shared_check_digest ==
    \E password \in CheckPasswords, strict_policy \in BOOLEAN :
      \E stored \in StoredDigests(password) :
        shared_call("check_digest",
                    [password |-> password, stored |-> stored,
                     strict_policy |-> strict_policy],
                    check_digest(last.configuration, Realm, Username, password,
                                 stored, DigestSalt, last.cache, strict_policy,
                                 FALSE))

shared_check_scramble ==
    \E password \in CheckPasswords, strict_policy \in BOOLEAN,
       as_bytes \in BOOLEAN :
      \E stored \in StoredScrambles(password) :
        /\ last.python = 2 => as_bytes
        /\ shared_call("check_scramble",
                       [password |-> password, stored |-> stored,
                        strict_policy |-> strict_policy],
                       check_scramble(last.configuration, password, stored,
                                      DigestSalt, last.cache, strict_policy,
                                      FALSE, last.python, as_bytes))

shared_check_encrypt ==
    \E password \in CheckPasswords, strict_policy \in BOOLEAN, iv \in IVs :
      \E stored \in StoredEncrypts(last.configuration, password) :
        shared_call("check_encrypt",
                    [password |-> password, stored |-> stored,
                     strict_policy |-> strict_policy],
                    check_encrypt(last.configuration, password, stored,
                                  last.cache, strict_policy, FALSE, last.python,
                                  TRUE, iv))

SharedNext ==
    \/ shared_check_hash
    \/ shared_check_digest
    \/ shared_check_scramble
    \/ shared_check_encrypt

SharedSpec == SharedInit /\ [][SharedNext]_vars

\* the secrets of a caller: none, the default, and two keys of its own
FernetSecrets == {<<>>, keyword_auto, <<"k1">>, <<"k2">>}

FernetConfigurations ==
    [site_password_salt : {<<>>, <<"5", "A">>},
     site_digest_salt : {<<>>, <<"7", "B">>}]

FernetInit ==
    /\ LimiterAtRest
    /\ \E configuration \in FernetConfigurations, password \in CheckPasswords,
          secret \in FernetSecrets, has_cryptography \in BOOLEAN :
         last = Pending("encrypt_password",
                        [configuration |-> configuration, password |-> password,
                         secret |-> secret,
                         has_cryptography |-> has_cryptography])

FernetNext ==
    \/ apply_encrypt_password
    \/ apply_decrypt_password

FernetSpec == FernetInit /\ [][FernetNext]_vars

(* The calls while time passes and the cache is expired again and again *)

\* a failed attempt is recorded only while more than fail_cache of time is
\* left after it: the last failure of every identity ages out before the
\* clock of the model stops
FailuresEnd == \A fail_cache \in ConcFailCaches : now + fail_cache < MaxTime

LiveUpdate ==
    \E client_address \in Addresses, client_id \in Users,
       login_success \in BOOLEAN :
      \E secret_arg \in SecretArgsOf(login_success) :
         /\ login_success \/ FailuresEnd
         /\ update_rate_limit(client_address, client_id, login_success,
                              secret_arg)
         /\ last' = NoCall
         /\ UNCHANGED run

LiveExpire(expire_delay) ==
    \E fail_cache \in ConcFailCaches :
         /\ expire_rate_limit(fail_cache, expire_delay)
         /\ last' = NoCall
         /\ UNCHANGED run

LiveHit ==
    \E client_address \in Addresses, client_id \in Users,
       max_user_hits \in MaxUserHits :
         /\ hit_rate_limit(client_address, client_id, max_user_hits)
         /\ last' = hit_result(client_address, client_id, max_user_hits)
         /\ UNCHANGED run

LiveNext ==
    \/ Tick
    \/ LiveUpdate
    \/ \E expire_delay \in ExpireDelays : LiveExpire(expire_delay)
    \/ LiveHit

\* the clock advances, and the caller's loop runs the expiry again and again:
\* a run that is due is not postponed
LiveSpec ==
    /\ Init
    /\ [][LiveNext]_vars
    /\ WF_vars(Tick)
    /\ WF_vars(LiveExpire(0))

(* Login handlers: each asks hit_rate_limit first, verifies the credential *)
(* when it was not refused, and reports the outcome to update_rate_limit    *)

HandlerUsers == {"u1"}

\* the admission check of a handler
handler_check(p) ==
    /\ loc[p].calls < MaxCalls
    /\ \E client_address \in Addresses, client_id \in HandlerUsers,
          max_user_hits \in ConcMaxUserHits :
            hit_enter(p, client_address, client_id, max_user_hits)

\* the report of a handler whose check has just let the client pass
handler_report(p) ==
    /\ loc[p].op = "hit"
    /\ ~loc[p].refuse
    /\ ~loc[p].raised
    /\ \E client_address \in Addresses, client_id \in HandlerUsers,
          login_success \in BOOLEAN :
         \E secret_arg \in (IF login_success THEN {NoSecret} ELSE ConcSecrets) :
            update_enter(p, client_address, client_id, login_success,
                         secret_arg)

HandlerSteps(p) ==
    \/ handler_check(p)
    \/ hit_load(p)
    \/ hit_release(p)
    \/ handler_report(p)
    \/ update_lock(p)
    \/ update_load(p)
    \/ update_try(p)
    \/ update_release(p)

HandlerNext ==
    \/ Tick
    \/ \E p \in Procs : HandlerSteps(p)

HandlerSpec == Init /\ [][HandlerNext]_vars

---------------------------------------------------------------------------
(* Properties of the sequential calls *)

UserEntry(rate_limits, client_address, client_id) ==
    rate_limits[client_address].proto.users[client_id]

\* the stored hits of table[address][proto][identity], a missing level as 0
StoredHits(rate_limits, client_address, client_id) ==
    IF HasIdentity(rate_limits, client_address, client_id)
    THEN UserEntry(rate_limits, client_address, client_id).hits
    ELSE 0

\* the secret nodes of a table, as <<address, identity, secret>>
Nodes(rate_limits) ==
    UNION {UNION {{<<address, user, secret>> :
                     secret \in DOMAIN UserEntry(rate_limits, address, user).secrets} :
                  user \in DOMAIN UsersOf(rate_limits, address)} :
           address \in DOMAIN rate_limits}

Node(rate_limits, n) == UserEntry(rate_limits, n[1], n[2]).secrets[n[3]]

RECURSIVE NodeHits(_, _)
NodeHits(rate_limits, S) ==
    IF S = {} THEN 0
    ELSE LET n == CHOOSE m \in S : TRUE
         IN  Node(rate_limits, n).hits + NodeHits(rate_limits, S \ {n})

\* C1: after N consecutive failed updates of one identity that had no entry,
\* with N pairwise distinct non-empty secrets, the identity entry has
\* hits = N and fails = N.
C1_DistinctSecrets ==
    (/\ run.calls > 0
     /\ NoSecret \notin run.secrets
     /\ Cardinality(run.secrets) = run.calls)
    => /\ HasIdentity(table, run.client_address, run.client_id)
       /\ UserEntry(table, run.client_address, run.client_id).hits = run.calls
       /\ UserEntry(table, run.client_address, run.client_id).fails = run.calls

\* C2: after N consecutive failed updates of one identity that had no entry,
\* all with the same non-empty secret, the identity entry has hits = 1 and
\* fails = N.
C2_SameSecret ==
    (/\ run.calls > 0
     /\ NoSecret \notin run.secrets
     /\ Cardinality(run.secrets) = 1)
    => /\ HasIdentity(table, run.client_address, run.client_id)
       /\ UserEntry(table, run.client_address, run.client_id).hits = 1
       /\ UserEntry(table, run.client_address, run.client_id).fails = run.calls

\* C1 and C2 for the identities and secrets that are not spelled like a counter
OrdinaryRun ==
    /\ run.client_id \notin ReservedKeys
    /\ run.secrets \cap ReservedKeys = {}

C1_OrdinaryDistinctSecrets == OrdinaryRun => C1_DistinctSecrets

C2_OrdinarySameSecret == OrdinaryRun => C2_SameSecret

\* C3: a successful update of an identity that has an entry with h hits and
\* f fails deletes the entry, takes exactly h and f off the hits and fails of
\* its protocol and address entries, and leaves every other identity entry of
\* the address as it was.
C3_SuccessResets ==
    [][\A client_address \in WideAddresses, client_id \in Users :
        (/\ HasIdentity(table, client_address, client_id)
         /\ update_rate_limit(client_address, client_id, TRUE, NoSecret))
        => LET before == table[client_address]
               after == table'[client_address]
               user == before.proto.users[client_id]
           IN  /\ DOMAIN after.proto.users = DOMAIN before.proto.users \ {client_id}
               /\ \A other \in DOMAIN after.proto.users :
                    after.proto.users[other] = before.proto.users[other]
               /\ after.proto.hits = before.proto.hits - user.hits
               /\ after.proto.fails = before.proto.fails - user.fails
               /\ after.hits = before.hits - user.hits
               /\ after.fails = before.fails - user.fails]_vars

C3_Witness ==
    /\ last.op = "update"
    /\ last.login_success
    /\ last.old_user_hits > 0
    /\ \E client_address \in DOMAIN table :
          table[client_address].proto.users # EmptyDict

\* C4: in every persisted table each aggregate counter is the sum over its
\* children (identity hits = number of its secret nodes, identity fails = sum
\* of their hits, protocol = sum over identities, address = its protocol) and
\* no counter is negative.
C4_Aggregates ==
    \A client_address \in DOMAIN table :
        LET address_limits == table[client_address]
            users == address_limits.proto.users
        IN  /\ address_limits.hits = address_limits.proto.hits
            /\ address_limits.fails = address_limits.proto.fails
            /\ address_limits.proto.hits =
                 SumOver([user \in DOMAIN users |-> users[user].hits],
                         DOMAIN users)
            /\ address_limits.proto.fails =
                 SumOver([user \in DOMAIN users |-> users[user].fails],
                         DOMAIN users)
            /\ address_limits.hits >= 0 /\ address_limits.fails >= 0
            /\ \A user \in DOMAIN users :
                 /\ users[user].hits = Cardinality(DOMAIN users[user].secrets)
                 /\ users[user].fails =
                      SumOver([secret \in DOMAIN users[user].secrets |->
                                  users[user].secrets[secret].hits],
                              DOMAIN users[user].secrets)
                 /\ users[user].hits >= 0 /\ users[user].fails >= 0
                 /\ \A secret \in DOMAIN users[user].secrets :
                      users[user].secrets[secret].hits >= 0

\* C5: hit_rate_limit returns, and it returns refuse = TRUE exactly when the
\* stored hits of table[address][proto][identity], a missing level counting
\* as 0, are at least max_user_hits.
C5_RefuseIffHits ==
    last.op = "hit"
    => /\ ~last.raised
       /\ last.refuse <=> (StoredHits(table, last.client_address, last.client_id)
                             >= last.max_user_hits)

\* C6: a non-postponed expire run at time now with window fail_cache removes
\* exactly the secret nodes with timestamp + fail_cache < now, and takes the
\* hits of each removed node off the fails, and 1 off the hits, of its
\* identity (while that entry stays), protocol and address.
C6_ExpireRemovesOld ==
    [][\A fail_cache \in FailCaches, expire_delay \in ExpireDelays :
        (/\ last_expire' = now
         /\ ~postponed_expire(expire_delay, last_expire, now)
         /\ expire_rate_limit(fail_cache, expire_delay))
        => LET old == {n \in Nodes(table) :
                          Node(table, n).timestamp + fail_cache < now}
               Under(S, client_address) == {n \in S : n[1] = client_address}
               Of(S, client_address, user) ==
                   {n \in S : n[1] = client_address /\ n[2] = user}
           IN  /\ Nodes(table') = Nodes(table) \ old
               /\ \A n \in Nodes(table') : Node(table', n) = Node(table, n)
               /\ DOMAIN table' = DOMAIN table
               /\ \A client_address \in DOMAIN table :
                    LET before == table[client_address]
                        after == table'[client_address]
                        gone == Under(old, client_address)
                    IN  /\ after.fails = before.fails - NodeHits(table, gone)
                        /\ after.hits = before.hits - Cardinality(gone)
                        /\ after.proto.fails
                             = before.proto.fails - NodeHits(table, gone)
                        /\ after.proto.hits
                             = before.proto.hits - Cardinality(gone)
                        /\ DOMAIN after.proto.users \subseteq DOMAIN before.proto.users
                        /\ \A user \in DOMAIN after.proto.users :
                             LET mine == Of(old, client_address, user)
                             IN  /\ after.proto.users[user].fails
                                     = before.proto.users[user].fails
                                       - NodeHits(table, mine)
                                 /\ after.proto.users[user].hits
                                     = before.proto.users[user].hits
                                       - Cardinality(mine)]_vars

C6_Witness ==
    /\ last.op = "expire"
    /\ ~last.postponed
    /\ last.expired > 0
    /\ Nodes(table) # {}

\* C9: a postponed expire call returns a strictly negative number, takes no
\* lock and leaves the table and the last-expired marker as they were.
C9_PostponedNegative ==
    [][\A fail_cache \in FailCaches, expire_delay \in ExpireDelays :
        (/\ postponed_expire(expire_delay, last_expire, now)
         /\ expire_rate_limit(fail_cache, expire_delay)
         /\ last' \in expire_results(fail_cache, expire_delay))
        => /\ last'.expired < 0
           /\ table' = table
           /\ last_expire' = last_expire
           /\ lock' = lock]_vars

\* C11: after a non-postponed expire run that removed secret nodes, the
\* persisted table holds no identity entry and no protocol entry whose fails
\* counter is zero.
C11_ZeroFailsPruned ==
    (last.op = "expire" /\ ~last.postponed /\ last.expired > 0)
        => \A client_address \in DOMAIN table :
              /\ table[client_address].proto.fails # 0
              /\ \A user \in DOMAIN table[client_address].proto.users :
                    table[client_address].proto.users[user].fails # 0

\* C12: a successful update of an identity that has no entry adds no
\* address, protocol, identity or secret node to the persisted table.
C12_SuccessCreatesNothing ==
    [][\A client_address \in WideAddresses, client_id \in Users :
        (/\ ~HasIdentity(table, client_address, client_id)
         /\ update_rate_limit(client_address, client_id, TRUE, NoSecret))
        => /\ DOMAIN table' \subseteq DOMAIN table
           /\ \A address \in DOMAIN table' :
                DOMAIN UsersOf(table', address)
                    \subseteq DOMAIN UsersOf(table, address)
           /\ Nodes(table') \subseteq Nodes(table)]_vars

---------------------------------------------------------------------------
(* Properties of the calls of several processes *)

InCriticalSection(p) ==
    pc[p] \in {"update_load", "update_try", "update_release",
               "expire_load", "expire_try", "expire_release"}

\* C7: every load-mutate-save sequence of update_rate_limit and
\* expire_rate_limit runs under the exclusive lock with no other holder, and
\* the persisted table always equals the table that the calls which have saved
\* so far produce when they run alone, one after another in the order of
\* their saves: no update is lost.
C7_Serialised ==
    /\ \A p \in Procs :
         InCriticalSection(p)
            => /\ lock[p] = "exclusive"
               /\ \A q \in Procs \ {p} : lock[q] = "none"
    /\ table = serial

\* two overlapping failed updates of one identity with distinct secrets,
\* one call per process, have ended with hits = 2
C7_Witness ==
    /\ \A p \in Procs : /\ pc[p] = "idle"
                        /\ loc[p].op = "update"
                        /\ loc[p].calls = 1
    /\ \E p \in Procs : loc[p].overlap
    /\ \E client_address \in Addresses :
         /\ HasIdentity(table, client_address, "u1")
         /\ UserEntry(table, client_address, "u1").hits = Cardinality(Procs)
         /\ UserEntry(table, client_address, "u1").fails = Cardinality(Procs)

Finished(p) == pc[p] \in {"idle", "expire_touch"}

\* C8: a call of update_rate_limit, expire_rate_limit or _load_rate_limits
\* that took the lock has released it when it ends, whether it returns
\* normally, after a failed save, or by a failure raised while loading.
C8_LockReleased ==
    \A p \in Procs : Finished(p) => lock[p] = "none"

---------------------------------------------------------------------------
(* Properties of the stall *)

Max(a, b) == IF a > b THEN a ELSE b

\* C10: penalize_rate_limit returns max(0, 3 * (user_hits - max_user_hits)),
\* never a negative number, and blocks the caller only when that is positive.
C10_ClampedStall ==
    last.op = "penalize"
        => /\ last.sleep_secs = Max(0, 3 * (last.user_hits - last.max_user_hits))
           /\ last.sleep_secs >= 0
           /\ (last.slept > 0 => last.sleep_secs > 0)

\* C10 as the code has it: penalize_rate_limit returns
\* 3 * (user_hits - max_user_hits) as it is, negative when user_hits is below
\* max_user_hits, and blocks the caller for max(0, that) seconds.
C10_LinearStall ==
    last.op = "penalize"
        => /\ last.sleep_secs = 3 * (last.user_hits - last.max_user_hits)
           /\ last.slept = Max(0, 3 * (last.user_hits - last.max_user_hits))

C10_Witness ==
    /\ last.op = "penalize"
    /\ last.user_hits < last.max_user_hits
    /\ last.sleep_secs < 0
    /\ last.slept = 0

---------------------------------------------------------------------------
(* Properties of the password policy *)

\* the policy strings that name a policy: a keyword alone, modern:N or
\* custom:N:M with N and M written in digits
Named(site_policy) ==
    IF site_policy = <<"none">> THEN <<0, 0>>
    ELSE IF site_policy = <<"weak">> THEN <<6, 2>>
    ELSE IF site_policy = <<"medium">> THEN <<8, 3>>
    ELSE IF site_policy = <<"high">> THEN <<10, 4>>
    ELSE IF /\ Len(site_policy) >= 3
            /\ site_policy[1] = "modern" /\ site_policy[2] = ":"
            /\ IsDigits(SubSeq(site_policy, 3, Len(site_policy)))
    THEN <<int(SubSeq(site_policy, 3, Len(site_policy))), 1>>
    ELSE IF /\ Len(site_policy) >= 5
            /\ site_policy[1] = "custom" /\ site_policy[2] = ":"
            /\ \E i \in 4..(Len(site_policy) - 1) :
                  /\ site_policy[i] = ":"
                  /\ IsDigits(SubSeq(site_policy, 3, i - 1))
                  /\ IsDigits(SubSeq(site_policy, i + 1, Len(site_policy)))
    THEN LET i == CHOOSE j \in 4..(Len(site_policy) - 1) : site_policy[j] = ":"
         IN  <<int(SubSeq(site_policy, 3, i - 1)),
               int(SubSeq(site_policy, i + 1, Len(site_policy)))>>
    ELSE <<>>

\* C13: password_requirements returns the pair of a policy string that names
\* a policy, with no error; for every other string it returns an error and
\* the pair (-1, 42), which no policy string names.
C13_ParseOrError ==
    last.op = "password_requirements"
        => LET named == Named(last.args.site_policy)
               got == last.result
           IN  IF named # <<>>
               THEN /\ <<got.min_len, got.min_classes>> = named
                    /\ got.errors = <<>>
               ELSE /\ got.errors # <<>>
                    /\ got.min_len = -1
                    /\ got.min_classes = 42

\* the classes among lowercase, uppercase, digit and other that occur
ClassesIn(password) ==
    {c \in {"lower", "upper", "digits", "other"} :
        \E i \in 1..Len(password) :
            \/ c = "lower" /\ password[i] = "a"
            \/ c = "upper" /\ password[i] = "A"
            \/ c = "digits" /\ password[i] = "1"
            \/ c = "other" /\ password[i] \notin {"a", "A", "1"}}

\* C14: with the strength checker off and a policy that names
\* (min_len, min_classes), the policy check accepts a password exactly when
\* its length is at least min_len and at least min_classes classes occur in
\* it; a password shorter than min_len is reported as too short, whatever
\* its classes.
C14_LengthThenClasses ==
    (/\ last.op = "assure_password_strength_helper"
     /\ last.args.configuration.cracklib = "off"
     /\ Named(IF last.args.use_legacy
              THEN last.args.configuration.site_password_legacy_policy
              ELSE last.args.configuration.site_password_policy) # <<>>)
    => LET policy == Named(IF last.args.use_legacy
                           THEN last.args.configuration.site_password_legacy_policy
                           ELSE last.args.configuration.site_password_policy)
           password == last.args.password
           long == Len(password) >= policy[1]
           mixed == Cardinality(ClassesIn(password)) >= policy[2]
       IN  /\ (last.result = Value(TRUE)) <=> (long /\ mixed)
           /\ ~long => last.result
                          = Raise("ValueError",
                                  <<policy_fail_msg(last.args.use_legacy),
                                    "password too short">>)
           /\ (long /\ ~mixed)
                => last.result
                     = Raise("ValueError",
                             <<policy_fail_msg(last.args.use_legacy),
                               "password too simple">>)

\* a password that fails both rules of its policy has been reported
C14_Witness ==
    /\ last.op = "assure_password_strength_helper"
    /\ last.args.configuration.cracklib = "off"
    /\ last.args.configuration.site_password_policy
          = <<"custom", ":", "3", ":", "3">>
    /\ ~last.args.use_legacy
    /\ last.args.password = <<"a", "a">>
    /\ last.result = Raise("ValueError", <<policy_fail_msg(FALSE),
                                           "password too short">>)

\* a finished call of assure_password_strength
AssureCall == last.op = "assure_password_strength"

\* the helper's verdict on the password of the finished call under the
\* current (use_legacy FALSE) or the legacy policy of its configuration
Verdict(use_legacy) ==
    assure_password_strength_helper(last.args.configuration,
                                    last.args.password, use_legacy)

LegacyPermitted ==
    /\ last.args.configuration.site_password_legacy_policy # <<>>
    /\ last.args.allow_legacy

\* C15: assure_password_strength accepts exactly when the password satisfies
\* the current policy, or violates it while a legacy policy is configured,
\* allow_legacy is true and the password satisfies the legacy policy; without
\* allow_legacy or without a legacy policy the helper is called for the
\* current policy only and its violation is what the caller gets
C15_CurrentThenLegacy ==
    AssureCall =>
        /\ (last.result.raised = "" /\ last.result.value = TRUE)
             <=> \/ Verdict(FALSE) = Value(TRUE)
                 \/ /\ Verdict(FALSE).raised = "ValueError"
                    /\ LegacyPermitted
                    /\ Verdict(TRUE) = Value(TRUE)
        /\ ~LegacyPermitted =>
             /\ last.result.helper_calls = <<FALSE>>
             /\ Verdict(FALSE).raised = "ValueError" =>
                  /\ last.result.raised = "ValueError"
                  /\ last.result.value = Verdict(FALSE).value
                  /\ last.result.value[1] # policy_fail_msg(TRUE)

\* a password too short for the current policy, accepted under the legacy one
C15_Witness ==
    /\ AssureCall
    /\ LegacyPermitted
    /\ Verdict(FALSE) = Raise("ValueError", <<policy_fail_msg(FALSE),
                                              "password too short">>)
    /\ last.result.raised = ""
    /\ last.result.value = TRUE
    /\ last.result.helper_calls = <<FALSE, TRUE>>

\* the current policy is violated and the legacy one is not permitted
C15_RaisedWitness ==
    /\ AssureCall
    /\ ~last.args.allow_legacy
    /\ last.args.configuration.site_password_legacy_policy # <<>>
    /\ Verdict(TRUE) = Value(TRUE)
    /\ last.result.raised = "ValueError"

\* a finished call of one of the four checks
CheckCall ==
    last.op \in {"check_hash", "check_digest", "check_scramble", "check_encrypt"}

\* the key under which the finished check looks its password up in the cache
CacheKey ==
    IF last.op = "check_hash" THEN make_simple_hash(last.args.password)
    ELSE IF last.op = "check_digest"
    THEN make_simple_hash(merged_creds(last.args.realm, last.args.username,
                                       last.args.password))
    ELSE last.args.password

CacheHit == cache_hit(last.args.cache, CacheKey, last.args.stored)

\* the password of the finished check is accepted by the current policy, or
\* by the legacy one where that is configured and allowed
FitsPolicy ==
    assure_password_strength(last.args.configuration, last.args.password,
                             last.args.allow_legacy)
        = Outcome(Value(TRUE),
                  assure_password_strength(last.args.configuration,
                                           last.args.password,
                                           last.args.allow_legacy).helper_calls)

\* C16: a check with strict_policy and without a cache hit returns True only
\* for a password that fits the policy; for one that does not it returns
\* False without having looked at the stored value and leaves the cache alone
C16_PolicyBeforeMatch ==
    (CheckCall /\ last.args.strict_policy /\ ~CacheHit) =>
        /\ (last.result.raised = "" /\ last.result.value = TRUE) => FitsPolicy
        /\ ~FitsPolicy =>
             /\ last.result.raised = ""
             /\ last.result.value = FALSE
             /\ ~last.result.verified
             /\ last.result.cache = last.args.cache

\* the stored hash is the one of the password, which the policy turns down
C16_Witness ==
    /\ last.op = "check_hash"
    /\ last.args.strict_policy
    /\ ~CacheHit
    /\ last.args.password = <<"a">>
    /\ last.args.stored = make_hash(<<"a">>, <<"s1">>)
    /\ last.args.configuration.site_password_policy
          = <<POLICY_CUSTOM, ":", "2", ":", "2">>
    /\ last.result.raised = ""
    /\ last.result.value = FALSE
    /\ ~last.result.verified

\* one character of the password is replaced by another
Substituted(password, password2) ==
    /\ Len(password) = Len(password2)
    /\ Cardinality({i \in 1..Len(password) : password[i] # password2[i]}) = 1

\* one character is put into the password at some place
Inserted(password, password2) ==
    /\ Len(password2) = Len(password) + 1
    /\ \E i \in 1..Len(password2) :
         password = SubSeq(password2, 1, i - 1)
                       \o SubSeq(password2, i + 1, Len(password2))

\* the two passwords differ in one character
OneCharacterApart(password, password2) ==
    \/ Substituted(password, password2)
    \/ Inserted(password, password2)
    \/ Inserted(password2, password)

\* a finished check_hash of a password that fits the policy, without a cache
\* hit
HashChecked ==
    /\ last.op = "check_hash"
    /\ last.args.strict_policy
    /\ ~CacheHit
    /\ FitsPolicy

\* C17: against the hash make_hash stored for a password, with whatever salt,
\* check_hash returns True for the password itself and False for every
\* password that differs from it in one character
C17_RoundTrip ==
    HashChecked =>
        \A password \in CheckPasswords, salt \in Salts :
            last.args.stored = make_hash(password, salt) =>
                /\ last.args.password = password
                     => last.result.raised = "" /\ last.result.value = TRUE
                /\ OneCharacterApart(password, last.args.password)
                     => last.result.raised = "" /\ last.result.value = FALSE

\* the part of C17 that holds: the password itself is accepted, and one with
\* a character replaced is not
C17_Replaced ==
    HashChecked =>
        \A password \in CheckPasswords, salt \in Salts :
            last.args.stored = make_hash(password, salt) =>
                /\ last.args.password = password
                     => last.result.raised = "" /\ last.result.value = TRUE
                /\ Substituted(password, last.args.password)
                     => last.result.raised = "" /\ last.result.value = FALSE

\* a stored hash without exactly five '$'-separated fields, with another
\* algorithm than PBKDF2, with an iteration count that is no integer or with
\* a key that base64 does not decode
Malformed(hashed) ==
    LET fields == split(hashed, "$", -1)
    IN  \/ Len(fields) # 5
        \/ fields[1] # <<"PBKDF2">>
        \/ ~IsDigits(fields[3])
        \/ b64decode(fields[5]).raised # ""

\* C18: check_hash of a malformed stored hash returns False and raises
\* nothing
C18_MalformedIsNoMatch ==
    (last.op = "check_hash" /\ ~CacheHit /\ Malformed(last.args.stored))
        => last.result.raised = "" /\ last.result.value = FALSE

\* what check_hash does with a malformed stored hash: it refuses a password
\* that does not fit the policy, and raises for every other
C18_MalformedRaises ==
    (last.op = "check_hash" /\ ~CacheHit /\ Malformed(last.args.stored))
        => IF last.args.strict_policy /\ ~FitsPolicy
           THEN last.result.raised = "" /\ last.result.value = FALSE
           ELSE last.result.raised
                   \in {"ValueError", "AssertionError", "binascii.Error"}

\* the token of the finished call, had it been made with another operation
\* and other arguments
TokenOf(operation, args) ==
    make_csrf_trust_token(last.args.configuration, last.args.method, operation,
                          args, last.args.client_id, last.args.limit,
                          last.args.skip_fields)

\* the items of a dict, whatever the order of insertion
Items(args) == {args[i] : i \in 1..Len(args)}

\* the dicts with the items of args, inserted in any order
Reordered(args) ==
    {other \in [1..Len(args) -> Items(args)] : Items(other) = Items(args)}

\* C19: the token of a call is the token of every call with the same method,
\* operation, identity, limit and skip_fields whose argument map holds the
\* same key to value-list pairs, in whatever order they were inserted
C19_OrderIndependent ==
    last.op = "make_csrf_trust_token" =>
        \A other \in Reordered(last.args.args) :
            TokenOf(last.args.operation, other) = last.result

\* two keys were inserted in the order that is not the sorted one
C19_Witness ==
    /\ last.op = "make_csrf_trust_token"
    /\ Len(last.args.args) = 2
    /\ list(last.args.args) # sorted(list(last.args.args))
    /\ last.args.skip_fields = {}
    /\ last.args.args[1][2] # last.args.args[2][2]

\* what a token is to tell apart: the items of the keys that are not skipped
Visible(args, skip_fields) ==
    {pair \in Items(args) : pair[1] \notin skip_fields}

\* C20: two calls that differ in the operation, in a key that is not skipped
\* or in a value of such a key have different tokens
C20_Sensitive ==
    last.op = "make_csrf_trust_token" =>
        \A operation \in Operations, args \in ArgMaps :
            (\/ operation # last.args.operation
             \/ Visible(args, last.args.skip_fields)
                   # Visible(last.args.args, last.args.skip_fields))
                => TokenOf(operation, args) # last.result

\* the part of C20 that holds: a token tells two extended operations apart
C20_OperationSensitive ==
    last.op = "make_csrf_trust_token" =>
        \A operation \in Operations, args \in ArgMaps :
            extended_operation(operation, args, last.args.skip_fields)
                  # extended_operation(last.args.operation, last.args.args,
                                       last.args.skip_fields)
                => TokenOf(operation, args) # last.result

\* a finished call of generate_random_password under a policy that parses,
\* with the strength checker off
GeneratedUnderPolicy ==
    /\ last.op = "generate_random_password"
    /\ last.args.configuration.cracklib = "off"
    /\ Named(last.args.configuration.site_password_policy) # <<>>

\* C21: under a valid policy generate_random_password returns a password
\* that passes assure_password_strength for the current policy, after at
\* most tries attempts
C21_AlwaysGenerates ==
    GeneratedUnderPolicy =>
        /\ last.result.raised = ""
        /\ assure_password_strength(last.args.configuration, last.result.value,
                                    FALSE).raised = ""
        /\ last.result.attempts <= last.args.tries

\* the part of C21 that holds: the call ends within tries attempts, and a
\* password it returns passes the policy
C21_ReturnedFits ==
    last.op = "generate_random_password" =>
        /\ last.result.attempts <= last.args.tries
        /\ last.result.raised = ""
             => assure_password_strength(last.args.configuration,
                                         last.result.value, FALSE).raised = ""

\* the key of a password in the cache of a scheme
KeyOf(scheme, password) ==
    IF scheme = "check_hash" THEN make_simple_hash(password)
    ELSE IF scheme = "check_digest"
    THEN make_simple_hash(merged_creds(Realm, Username, password))
    ELSE password

\* C22: every entry of a shared cache belongs to a password that the policy
\* accepts, so a call that is answered from the cache accepts no password
\* the policy turns down, whatever strict_policy was in the calls before
C22_CacheHoldsChecked ==
    last.op = "shared" =>
        \A password \in CheckPasswords :
            KeyOf(last.scheme, password) \in DOMAIN last.cache.items
                => policy_fits(last.configuration, password, FALSE)

\* a call with strict_policy returns True for a password the policy turns
\* down, out of the cache a call without strict_policy has filled
C22_StrictHitUnchecked ==
    /\ last.op = "shared"
    /\ last.calls = 2
    /\ last.args.strict_policy
    /\ ~policy_fits(last.configuration, last.args.password, FALSE)
    /\ last.result.raised = ""
    /\ last.result.value = TRUE

\* C23: decrypt_password with the secret of encrypt_password returns the
\* password that was encrypted, for the default secret and for a secret of
\* the caller
C23_EncryptRoundTrip ==
    last.op = "decrypt_password" => last.result = Value(last.args.password)

\* the part of C23 that holds: the round trip under the default secret
C23_DefaultRoundTrip ==
    (last.op = "decrypt_password" /\ last.args.secret = keyword_auto)
        => last.result = Value(last.args.password)

InFullScan(p) ==
    pc[p] \in {"expire_lock", "expire_load", "expire_try", "expire_release",
               "expire_touch"}

Min(a, b) == IF a < b THEN a ELSE b

Apart(a, b) == Max(a, b) - Min(a, b)

\* C24: between the starts of any two full (non-postponed) scans of
\* expire_rate_limit for one protocol at least expire_delay elapses, also
\* when several processes run it: two scans that are under way together
\* began at least the smaller of their expire_delay values apart.
C24_ScansSpacedByDelay ==
    \A p, q \in Procs :
        (p # q /\ InFullScan(p) /\ InFullScan(q))
            => Apart(loc[p].timestamp, loc[q].timestamp)
                   >= Min(loc[p].expire_delay, loc[q].expire_delay)

\* the last call was hit_rate_limit for this identity, with a limit of at
\* least one
HitCall(client_address, client_id) ==
    /\ last.op = "hit"
    /\ last.client_address = client_address
    /\ last.client_id = client_id
    /\ last.max_user_hits >= 1

Refused(client_address, client_id) ==
    /\ HitCall(client_address, client_id)
    /\ ~last.raised
    /\ last.refuse

Unblocked(client_address, client_id) ==
    /\ ~HasIdentity(table, client_address, client_id)
    /\ HitCall(client_address, client_id) => (~last.raised /\ ~last.refuse)

\* C25: an identity that hit_rate_limit refused, and for which no further
\* failure is recorded, is unblocked once its last failure is more than
\* fail_cache old and the expiry has run: from then on the table holds no
\* entry for it and every hit_rate_limit call with a limit of at least one
\* returns not refused.
C25_RefusedIsUnblocked ==
    \A client_address \in Addresses, client_id \in Users :
        [](Refused(client_address, client_id)
              => <>[]Unblocked(client_address, client_id))

\* an entry that holds failures but no secret node stays, with its counters,
\* through every step but a successful login, at whatever time the expiry
\* runs: the blocked identity is not waiting for the clock
C25_NodelessEntryStays ==
    [][\A client_address \in Addresses, client_id \in Users :
        (/\ HasIdentity(table, client_address, client_id)
         /\ UserEntry(table, client_address, client_id).secrets = EmptyDict
         /\ ~update_rate_limit(client_address, client_id, TRUE, NoSecret))
        => /\ HasIdentity(table', client_address, client_id)
           /\ UserEntry(table', client_address, client_id).hits
                >= UserEntry(table, client_address, client_id).hits]_vars

\* what is stored under the key of an identity: its entry, or nothing
StoredEntry(rate_limits, client_address, client_id) ==
    IF HasIdentity(rate_limits, client_address, client_id)
    THEN <<UserEntry(rate_limits, client_address, client_id)>>
    ELSE <<>>

\* the step is an update_rate_limit call for one identity
UpdateOf(client_address, client_id) ==
    \E login_success \in BOOLEAN :
        \E secret_arg \in SecretArgsOf(login_success) :
            update_rate_limit(client_address, client_id, login_success,
                              secret_arg)

\* C26: an update_rate_limit call for identity A, failed or successful,
\* leaves the stored hits and fails of every other identity B of the address
\* as they were, and with them what hit_rate_limit answers for B.
C26_OtherIdentitiesKept ==
    [][\A client_address \in Addresses, client_id \in Users :
        UpdateOf(client_address, client_id)
        => \A other \in Users \ {client_id} :
             /\ StoredEntry(table', client_address, other)
                  = StoredEntry(table, client_address, other)
             /\ \A max_user_hits \in MaxUserHits :
                  hit_rate_limit_check(table', client_address, other,
                                       max_user_hits)
                    = hit_rate_limit_check(table, client_address, other,
                                           max_user_hits)]_vars

\* the entries themselves are kept: what changes is the answer for an
\* identity whose name is the key of a counter
C26_EntriesKept ==
    [][\A client_address \in Addresses, client_id \in Users :
        UpdateOf(client_address, client_id)
        => \A other \in Users \ {client_id} :
             StoredEntry(table', client_address, other)
               = StoredEntry(table, client_address, other)]_vars

\* C27: a failed update_rate_limit call that passes no secret counts as a
\* new distinct hit, also when an earlier such call read the same clock
\* value: it raises the stored hits of its identity by one.
C27_NoSecretIsNewHit ==
    [][\A client_address \in Addresses, client_id \in Users :
        update_rate_limit(client_address, client_id, FALSE, NoSecret)
        => StoredHits(table', client_address, client_id)
             = StoredHits(table, client_address, client_id) + 1]_vars

\* the same for the attempts of an identity that read distinct clock values
C27_DistinctClockIsNewHit ==
    [][\A client_address \in Addresses, client_id \in Users \ ReservedKeys :
        (/\ update_rate_limit(client_address, client_id, FALSE, NoSecret)
         /\ HasIdentity(table, client_address, client_id)
              => TimeKey(now) \notin
                   DOMAIN UserEntry(table, client_address, client_id).secrets)
        => StoredHits(table', client_address, client_id)
             = StoredHits(table, client_address, client_id) + 1]_vars

\* C28: when every handler calls hit_rate_limit before it verifies and
\* update_rate_limit only after the check let the client pass, the stored
\* hits of an identity never exceed max_user_hits, also when several
\* handlers for one address and identity run together.
C28_HitsWithinLimit ==
    \A client_address \in Addresses, client_id \in HandlerUsers,
       max_user_hits \in ConcMaxUserHits :
        StoredHits(table, client_address, client_id) <= max_user_hits

\* the try block of an update or expire call of p runs in this step, on a
\* table that its load could not read
SavesAfterFailedLoad(p) ==
    /\ pc[p] \in {"update_try", "expire_try"}
    /\ pc'[p] # pc[p]
    /\ loc[p].loaded # "dict"

\* the identity whose counters the call of p is to change
OwnIdentity(p, client_address, client_id) ==
    /\ loc[p].op = "update"
    /\ loc[p].client_address = client_address
    /\ loc[p].client_id = client_id

\* C29: an update_rate_limit or expire_rate_limit call whose load fails, so
\* that it works on an empty table, leaves the persisted entries of all
\* other addresses and identities as they were before the call.
C29_FailedLoadKeepsOthers ==
    [][\A p \in Procs :
        SavesAfterFailedLoad(p)
        => \A client_address \in Addresses, client_id \in ConcUsers :
             \/ OwnIdentity(p, client_address, client_id)
             \/ StoredEntry(table', client_address, client_id)
                  = StoredEntry(table, client_address, client_id)]_vars

\* a load that raises ends the call before anything is written
C29_RaisedLoadKeepsAll ==
    [][\A p \in Procs :
        (pc[p] \in {"update_load", "expire_load"} /\ pc'[p] = "idle")
        => table' = table]_vars

\* C30: the stored timestamp of a secret node never decreases, also when two
\* processes record a failure for one secret together: a step leaves every
\* node that stays in the table with a timestamp not earlier than before.
C30_TimestampNeverDecreases ==
    [][\A n \in Nodes(table) \cap Nodes(table') :
         Node(table', n).timestamp >= Node(table, n).timestamp]_vars

====
